---- MODULE Spec2Model ----
(***************************************************************************)
(* NANDA node SDK: the message-improvement registry (MessageImprover) and  *)
(* the agent's message pipeline (NANDA.processMessage).                    *)
(*                                                                         *)
(* Texts are sequences of one-character strings, so that the transforms    *)
(* are computed character by character.  Log lines and metadata.error are  *)
(* plain strings: the code only builds and compares them.                  *)
(***************************************************************************)
EXTENDS Integers, Sequences, FiniteSets, TLC

VARIABLES
  improvers,       \* MessageImprover.improvers: own properties, in insertion order
  improversProto,  \* the prototype of the improvers object
  activeImprover,  \* MessageImprover.activeImprover
  messageCount,    \* NANDA.messageCount, per agent
  conversations,   \* NANDA.conversations, per agent: insertion-ordered entries
  inflight,        \* asynchronous calls suspended at `await improver(...)`
  calls,           \* number of processMessage invocations made on each agent
  arrivals,        \* per agent, in call order: the messages passed to processMessage
                   \* and the conversation ids passed to deleteConversation
  lifecycle,       \* per agent: NANDA.isRunning, its collaborators' state and the
                   \* start/stop calls suspended at an await
  last             \* the public operation that returned most recently

registryVars == <<improvers, improversProto, activeImprover>>

messageVars == <<messageCount, conversations, calls, arrivals>>

lifecycleVars == <<lifecycle>>

vars == <<registryVars, messageVars, lifecycleVars, inflight, last>>

----------------------------------------------------------------------------
(* Bounds *)

MaxInflight == 2
MaxCalls == 3
MaxDeletes == 1
MaxLifecycle == 3
MaxCreates == 2
MaxLen == 3

----------------------------------------------------------------------------
(* Characters and texts *)

LowerCase == <<"a","b","c","d","e","f","g","h","i","j","k","l","m",
               "n","o","p","q","r","s","t","u","v","w","x","y","z">>
UpperCase == <<"A","B","C","D","E","F","G","H","I","J","K","L","M",
               "N","O","P","Q","R","S","T","U","V","W","X","Y","Z">>

IndexIn(tab, c) == IF \E i \in 1..Len(tab) : tab[i] = c
                   THEN CHOOSE i \in 1..Len(tab) : tab[i] = c
                   ELSE 0

\* String.prototype.toUpperCase, one character
ToUpperChar(c) == IF IndexIn(LowerCase, c) # 0 THEN UpperCase[IndexIn(LowerCase, c)] ELSE c

\* String.prototype.toLowerCase, one character
ToLowerChar(c) == IF IndexIn(UpperCase, c) # 0 THEN LowerCase[IndexIn(UpperCase, c)] ELSE c

toUpperCase(s) == [i \in 1..Len(s) |-> ToUpperChar(s[i])]

toLowerCase(s) == [i \in 1..Len(s) |-> ToLowerChar(s[i])]

IsWhite(c) == c \in {" ", "\t", "\n"}

RECURSIVE trimStart(_)
trimStart(s) == IF s # <<>> /\ IsWhite(Head(s)) THEN trimStart(Tail(s)) ELSE s

RECURSIVE trimEnd(_)
trimEnd(s) == IF s # <<>> /\ IsWhite(s[Len(s)]) THEN trimEnd(SubSeq(s, 1, Len(s) - 1)) ELSE s

\* String.prototype.trim
trim(s) == trimEnd(trimStart(s))

\* improved.charAt(0).toUpperCase() + improved.slice(1)
capitalizeFirst(s) == IF s = <<>> THEN s ELSE <<ToUpperChar(Head(s))>> \o Tail(s)

\* /[.!?]$/.test(improved)
endsWithPunctuation(s) == s # <<>> /\ s[Len(s)] \in {".", "!", "?"}

\* the period appended without the test for closing punctuation
addPeriod_always(s) == s \o <<".">>

\* if (!/[.!?]$/.test(improved)) improved += '.'
addPeriod(s) == IF endsWithPunctuation(s) THEN s ELSE s \o <<".">>

\* the seed transform registered under "default"
defaultImprover(message) ==
  LET improved == trim(message)
  IN  IF Len(improved) = 0 THEN improved ELSE addPeriod(capitalizeFirst(improved))


\* 'hi', 'hey', ... : the word substitutions of the "professional" seed, in order
replacements ==
  <<[informal |-> <<"h","i">>,
     formal |-> <<"H","e","l","l","o">>],
    [informal |-> <<"h","e","y">>,
     formal |-> <<"H","e","l","l","o">>],
    [informal |-> <<"t","h","a","n","k","s">>,
     formal |-> <<"T","h","a","n","k"," ","y","o","u">>],
    [informal |-> <<"t","h","x">>,
     formal |-> <<"T","h","a","n","k"," ","y","o","u">>],
    [informal |-> <<"u">>,
     formal |-> <<"y","o","u">>],
    [informal |-> <<"u","r">>,
     formal |-> <<"y","o","u","r">>],
    [informal |-> <<"r">>,
     formal |-> <<"a","r","e">>],
    [informal |-> <<"b","t","w">>,
     formal |-> <<"b","y"," ","t","h","e"," ","w","a","y">>],
    [informal |-> <<"a","s","a","p">>,
     formal |-> <<"a","s"," ","s","o","o","n"," ","a","s"," ","p","o","s","s","i","b","l","e">>],
    [informal |-> <<"f","y","i">>,
     formal |-> <<"f","o","r"," ","y","o","u","r"," ","i","n","f","o","r","m","a","t","i","o","n">>]>>

\* \w of a regular expression
IsWordChar(c) ==
  \/ IndexIn(LowerCase, c) # 0
  \/ IndexIn(UpperCase, c) # 0
  \/ c \in {"0","1","2","3","4","5","6","7","8","9","_"}

\* new RegExp(`\\b${informal}\\b`, 'gi') matches at position i of s
wordMatchAt(s, i, w) ==
  /\ i + Len(w) - 1 <= Len(s)
  /\ \A k \in 1..Len(w) : ToLowerChar(s[i + k - 1]) = ToLowerChar(w[k])
  /\ (i = 1 \/ ~IsWordChar(s[i - 1]))
  /\ (i + Len(w) - 1 = Len(s) \/ ~IsWordChar(s[i + Len(w)]))

RECURSIVE replaceFrom(_, _, _, _)
replaceFrom(s, i, w, f) ==
  IF i > Len(s) THEN <<>>
  ELSE IF wordMatchAt(s, i, w) THEN f \o replaceFrom(s, i + Len(w), w, f)
  ELSE <<s[i]>> \o replaceFrom(s, i + 1, w, f)

\* improved.replace(regex, formal), all matches
replaceWord(s, w, f) == replaceFrom(s, 1, w, f)

RECURSIVE applyReplacements(_, _)
applyReplacements(s, k) ==
  IF k > Len(replacements) THEN s
  ELSE applyReplacements(replaceWord(s, replacements[k].informal, replacements[k].formal), k + 1)

\* the seed transform registered under "professional"
professionalImprover(message) ==
  LET improved == trim(message)
  IN  IF Len(improved) = 0 THEN improved
      ELSE addPeriod(applyReplacements(capitalizeFirst(improved), 1))

engagingStarters ==
  {<<"E","x","c","i","t","i","n","g"," ","n","e","w","s",":"," ">>,
   <<"H","e","r","e","'","s"," ","s","o","m","e","t","h","i","n","g"," ","i","n","t","e","r","e","s","t","i","n","g",":"," ">>,
   <<"Y","o","u"," ","w","o","n","'","t"," ","b","e","l","i","e","v","e"," ","t","h","i","s",":"," ">>,
   <<"G","e","t"," ","r","e","a","d","y"," ","f","o","r",":"," ">>,
   <<"A","m","a","z","i","n","g"," ","d","i","s","c","o","v","e","r","y",":"," ">>}

\* String.prototype.includes
includes(s, w) ==
  \E i \in 1..(Len(s) - Len(w) + 1) : SubSeq(s, i, i + Len(w) - 1) = w

excitingWords ==
  {<<"a","m","a","z","i","n","g">>,
   <<"e","x","c","i","t","i","n","g">>,
   <<"i","n","c","r","e","d","i","b","l","e">>}

\* improved.replace(/\.$/, '!')
periodToBang(s) ==
  IF s # <<>> /\ s[Len(s)] = "." THEN SubSeq(s, 1, Len(s) - 1) \o <<"!">> ELSE s

\* the seed transform registered under "creative"; Math.random picks the starter,
\* so the transform has a set of possible results
creativeImprover(message) ==
  LET improved == trim(message)
      capped   == capitalizeFirst(improved)
      started  == IF Len(capped) < 100 /\ ~includes(capped, <<":">>)
                  THEN {st \o capped : st \in engagingStarters}
                  ELSE {capped}
      excited(s) == IF \E w \in excitingWords : includes(toLowerCase(s), w)
                    THEN periodToBang(s) ELSE s
  IN  IF Len(improved) = 0 THEN {improved}
      ELSE {addPeriod(excited(s)) : s \in started}

----------------------------------------------------------------------------
(* JavaScript values the model needs *)

Undefined == "<undefined>"

\* x || y
OrElse(x, y) == IF x \in {Undefined, ""} THEN y ELSE x

\* values a transform can throw, or reject its promise with
ErrorBoom       == [type |-> "Error",  message |-> "boom"]
ErrorEmpty      == [type |-> "Error",  message |-> ""]
ThrownString    == [type |-> "string", message |-> "oops"]
ThrownSymbol    == [type |-> "symbol", message |-> "sym"]
TypeErrorSymbol == [type |-> "Error",  message |-> "Cannot convert a Symbol value to a string"]
TypeErrorRead   == [type |-> "Error",  message |-> "Cannot read properties of undefined"]

\* `${error}` inside a template literal: ToString throws a TypeError for a Symbol
canStringify(error) == error.type # "symbol"

\* error instanceof Error ? error.message : 'Unknown error'
errorText(error) == IF error.type = "Error" THEN error.message ELSE "Unknown error"

Fulfilled(v) == [state |-> "fulfilled", value |-> v]
Rejected(e)  == [state |-> "rejected", reason |-> e]

----------------------------------------------------------------------------
(* Transforms: type MessageImprover = (message, context?) => string | Promise<string> *)

SeedFns == {"defaultImprover", "professionalImprover", "creativeImprover"}

\* transforms a caller registers
UserFns == {"uppercase", "throwError", "throwEmptyError", "throwString",
            "throwSymbol", "rejectError", "neverSettles"}

\* property names every object literal inherits from Object.prototype
ObjectPrototype == {"toString"}

\* the accessor property of Object.prototype that reads and writes the prototype
ProtoAccessor == "__proto__"

\* calling a value that cannot be called as `improver(message, context)`
TypeErrorCall == [type |-> "Error", message |-> "improver is not a function"]

\* what `await improver(message, context)` can produce: a value, or a thrown
\* value / rejection reason; no outcome at all for a promise that never settles
Outcomes(fn, message) ==
  CASE fn = "defaultImprover"      -> {[kind |-> "return", value |-> defaultImprover(message)]}
    [] fn = "professionalImprover" -> {[kind |-> "return", value |-> professionalImprover(message)]}
    [] fn = "creativeImprover"     -> {[kind |-> "return", value |-> v] : v \in creativeImprover(message)}
    [] fn = "Object.prototype.toString" ->
         {[kind |-> "return",
           value |-> <<"[","o","b","j","e","c","t"," ","U","n","d","e","f","i","n","e","d","]">>]}
    [] fn = "Object.prototype"     -> {[kind |-> "throw", error |-> TypeErrorCall]}
    [] fn = "Function.prototype.toString" -> {[kind |-> "throw", error |-> TypeErrorCall]}
    [] fn = "uppercase"            -> {[kind |-> "return", value |-> toUpperCase(message)]}
    [] fn = "throwError"           -> {[kind |-> "throw", error |-> ErrorBoom]}
    [] fn = "rejectError"          -> {[kind |-> "throw", error |-> ErrorBoom]}
    [] fn = "throwEmptyError"      -> {[kind |-> "throw", error |-> ErrorEmpty]}
    [] fn = "throwString"          -> {[kind |-> "throw", error |-> ThrownString]}
    [] fn = "throwSymbol"          -> {[kind |-> "throw", error |-> ThrownSymbol]}
    [] fn = "neverSettles"         -> {}

----------------------------------------------------------------------------
(* MessageImprover: the registry *)

\* Object.keys(this.improvers)
list == [i \in 1..Len(improvers) |-> improvers[i].name]

hasOwn(name) == \E i \in 1..Len(improvers) : improvers[i].name = name

\* this.improvers[name]: own property first, then the prototype chain
lookup(name) ==
  IF hasOwn(name) THEN improvers[CHOOSE i \in 1..Len(improvers) : improvers[i].name = name].fn
  ELSE IF name = ProtoAccessor THEN improversProto
  ELSE IF name \in ObjectPrototype
       THEN IF improversProto = "Object.prototype"
            THEN "Object.prototype.toString" ELSE "Function.prototype.toString"
  ELSE Undefined

\* name in this.improvers
exists(name) == hasOwn(name) \/ name \in ObjectPrototype \/ name = ProtoAccessor

\* getActive that answers with the initial name instead of reading the field
getActive_initial == "default"

getActive == activeImprover

\* this.improvers[name] = improver: an existing key keeps its position
\* and "__proto__" creates no key: the assignment goes to the accessor
assign(name, fn) ==
  IF name = ProtoAccessor THEN improvers
  ELSE IF hasOwn(name)
  THEN [i \in 1..Len(improvers) |->
          IF improvers[i].name = name THEN [name |-> name, fn |-> fn] ELSE improvers[i]]
  ELSE Append(improvers, [name |-> name, fn |-> fn])

\* the prototype after this.improvers[name] = improver: the accessor installs a
\* function (an object) as the new prototype
assignProto(name, fn) == IF name = ProtoAccessor THEN fn ELSE improversProto

\* delete this.improvers[name]
deleteKey(name) == SelectSeq(improvers, LAMBDA e : e.name # name)

\* what the operation saw before it ran
Before == [active |-> activeImprover, list |-> list, improvers |-> improvers]

NandaUnchanged == UNCHANGED <<messageVars, lifecycleVars>>

register(name, fn) ==
  /\ improvers' = assign(name, fn)
  /\ improversProto' = assignProto(name, fn)
  /\ last' = [op |-> "register", name |-> name, fn |-> fn, ret |-> Undefined, pre |-> Before]
  /\ UNCHANGED <<activeImprover, inflight>>
  /\ NandaUnchanged

\* setActive that reports success without storing the name
setActive_noStore(name) ==
  /\ last' = [op |-> "setActive", name |-> name, ret |-> lookup(name) # Undefined, pre |-> Before]
  /\ UNCHANGED <<improvers, improversProto, activeImprover, inflight>>
  /\ NandaUnchanged

setActive(name) ==
  /\ IF lookup(name) = Undefined
     THEN /\ last' = [op |-> "setActive", name |-> name, ret |-> FALSE, pre |-> Before]
          /\ UNCHANGED activeImprover
     ELSE /\ activeImprover' = name
          /\ last' = [op |-> "setActive", name |-> name, ret |-> TRUE, pre |-> Before]
  /\ UNCHANGED <<improvers, improversProto, inflight>>
  /\ NandaUnchanged

\* remove without the guard that protects "default"
remove_unguarded(name) ==
  /\ activeImprover' = IF activeImprover = name THEN "default" ELSE activeImprover
  /\ improvers' = deleteKey(name)
  /\ last' = [op |-> "remove", name |-> name, ret |-> TRUE, pre |-> Before]
  /\ UNCHANGED <<improversProto, inflight>>
  /\ NandaUnchanged

\* remove that forgets to reset the active name
remove_keepActive(name) ==
  /\ IF name = "default"
     THEN /\ last' = [op |-> "remove", name |-> name, ret |-> FALSE, pre |-> Before]
          /\ UNCHANGED improvers
     ELSE /\ improvers' = deleteKey(name)
          /\ last' = [op |-> "remove", name |-> name, ret |-> TRUE, pre |-> Before]
  /\ UNCHANGED <<improversProto, activeImprover, inflight>>
  /\ NandaUnchanged

remove(name) ==
  /\ IF name = "default"
     THEN /\ last' = [op |-> "remove", name |-> name, ret |-> FALSE, pre |-> Before]
          /\ UNCHANGED <<improvers, activeImprover>>
     ELSE /\ activeImprover' = IF activeImprover = name THEN "default" ELSE activeImprover
          /\ improvers' = deleteKey(name)
          /\ last' = [op |-> "remove", name |-> name, ret |-> TRUE, pre |-> Before]
  /\ UNCHANGED <<improversProto, inflight>>
  /\ NandaUnchanged

\* constructor -> registerDefaultImprovers
registerDefaultImprovers ==
  <<[name |-> "default",      fn |-> "defaultImprover"],
    [name |-> "professional", fn |-> "professionalImprover"],
    [name |-> "creative",     fn |-> "creativeImprover"]>>

----------------------------------------------------------------------------
(* MessageImprover: improve and improveWith *)

\* the result returned when no transform is resolved, or from the catch block
noneResult(message, error) ==
  [originalMessage |-> message, improvedMessage |-> message,
   improvementType |-> "none", metadata |-> [error |-> error]]

\* the success result with the type test turned round
successResult_swapped(name, message, improvedMessage, context) ==
  [originalMessage |-> message, improvedMessage |-> improvedMessage,
   improvementType |-> IF name = "default" THEN "custom" ELSE "default",
   metadata |-> [improver |-> name, context |-> context]]

\* the result returned after the transform's value has been awaited
successResult(name, message, improvedMessage, context) ==
  [originalMessage |-> message, improvedMessage |-> improvedMessage,
   improvementType |-> IF name = "default" THEN "default" ELSE "custom",
   metadata |-> [improver |-> name, context |-> context]]

\* catch (error) { this.logger.error(`... ${error}`); return {...} }
\* the template literal is evaluated first and may itself throw
catchResult(message, error) ==
  IF canStringify(error)
  THEN Fulfilled(noneResult(message, errorText(error)))
  ELSE Rejected(TypeErrorSymbol)

\* improveWith from `await improver(...)` on: `name` is the parameter
improveWithSettle(name, message, context, outcome) ==
  IF outcome.kind = "return"
  THEN Fulfilled(successResult(name, message, outcome.value, context))
  ELSE catchResult(message, outcome.error)

\* improve from `await improver(...)` on: this.activeImprover is read again
improveSettle(message, context, outcome) ==
  IF outcome.kind = "return"
  THEN Fulfilled(successResult(activeImprover, message, outcome.value, context))
  ELSE catchResult(message, outcome.error)

\* a catch block that turns the exception into a "none" result
rethrow_swallowed(error) == Fulfilled(noneResult(<<>>, errorText(error)))

\* NANDA.processMessage: catch (error) { this.logger.error(`... ${error}`); throw error }
rethrow(error) == Rejected(IF canStringify(error) THEN error ELSE TypeErrorSymbol)

\* NANDA.processMessage from `await messageImprover.improveWith(...)` on
processMessageSettle(inner) ==
  IF inner.state = "fulfilled" THEN inner ELSE rethrow(inner.reason)

\* a call parked at its await; `registered` remembers whether the name was an
\* entry of the registry when the call resolved it
\* `call` remembers the processMessage invocation the call belongs to
Suspended(api, agent, name, message, context, fn, call) ==
  [api |-> api, agent |-> agent, name |-> name, message |-> message,
   context |-> context, fn |-> fn, registered |-> hasOwn(name), call |-> call]

\* a call that has returned: its settled promise, the transform it invoked
\* (Undefined when none) and what that transform produced
Returned(api, agent, name, message, promise, fn, outcome, registered, call) ==
  [op |-> api, agent |-> agent, name |-> name, message |-> message,
   promise |-> promise, invoked |-> fn, outcome |-> outcome, registered |-> registered,
   call |-> call]

\* improve and improveWith called directly, not from processMessage
NoCall == [seq |-> 0]

NoAgent == "<none>"

\* improveWith written as setActive followed by improve
improveWith_setsActive(name, message) ==
  LET improver == lookup(name)
  IN  /\ IF improver = Undefined
         THEN /\ last' = Returned("improveWith", NoAgent, name, message,
                                  Fulfilled(noneResult(message, "Improver not found")),
                                  Undefined, Undefined, FALSE, NoCall)
              /\ UNCHANGED <<inflight, registryVars>>
         ELSE /\ Len(inflight) < MaxInflight
              /\ inflight' = Append(inflight,
                     Suspended("improveWith", NoAgent, name, message, Undefined, improver, NoCall))
              /\ activeImprover' = name
              /\ UNCHANGED <<last, improvers, improversProto>>
      /\ NandaUnchanged

\* improveWith(name, message): up to the await
improveWith(name, message) ==
  LET improver == lookup(name)
  IN  /\ IF improver = Undefined
         THEN /\ last' = Returned("improveWith", NoAgent, name, message,
                                  Fulfilled(noneResult(message, "Improver not found")),
                                  Undefined, Undefined, FALSE, NoCall)
              /\ UNCHANGED inflight
         ELSE /\ Len(inflight) < MaxInflight
              /\ inflight' = Append(inflight,
                     Suspended("improveWith", NoAgent, name, message, Undefined, improver, NoCall))
              /\ UNCHANGED last
      /\ UNCHANGED registryVars
      /\ NandaUnchanged

\* improve(message): up to the await
improve(message) ==
  LET improver == lookup(activeImprover)
  IN  /\ IF improver = Undefined
         THEN /\ last' = Returned("improve", NoAgent, activeImprover, message,
                                  Fulfilled(noneResult(message, "Improver not found")),
                                  Undefined, Undefined, FALSE, NoCall)
              /\ UNCHANGED inflight
         ELSE /\ Len(inflight) < MaxInflight
              /\ inflight' = Append(inflight,
                     Suspended("improve", NoAgent, activeImprover, message, Undefined, improver, NoCall))
              /\ UNCHANGED last
      /\ UNCHANGED registryVars
      /\ NandaUnchanged

RemoveAt(seq, i) == SubSeq(seq, 1, i - 1) \o SubSeq(seq, i + 1, Len(seq))

\* continuations run in the order of the calls: a call resumes only when
\* every earlier one has
settle_inOrder(i) ==
  /\ i = 1
  /\ i \in 1..Len(inflight)
  /\ inflight[i].api # "onMessage"
  /\ LET c == inflight[i]
     IN  \E outcome \in Outcomes(c.fn, c.message) :
           LET inner == improveWithSettle(c.name, c.message, c.context, outcome)
               promise == CASE c.api = "improveWith"    -> inner
                            [] c.api = "improve"        -> improveSettle(c.message, c.context, outcome)
                            [] c.api = "processMessage" -> processMessageSettle(inner)
           IN  last' = Returned(c.api, c.agent, c.name, c.message, promise, c.fn, outcome, c.registered, c.call)
  /\ inflight' = RemoveAt(inflight, i)
  /\ UNCHANGED registryVars
  /\ NandaUnchanged

\* the awaited transform settles and the suspended call runs to its return
settle(i) ==
  /\ i \in 1..Len(inflight)
  /\ inflight[i].api # "onMessage"
  /\ LET c == inflight[i]
     IN  \E outcome \in Outcomes(c.fn, c.message) :
           LET inner == improveWithSettle(c.name, c.message, c.context, outcome)
               promise == CASE c.api = "improveWith"    -> inner
                            [] c.api = "improve"        -> improveSettle(c.message, c.context, outcome)
                            [] c.api = "processMessage" -> processMessageSettle(inner)
           IN  last' = Returned(c.api, c.agent, c.name, c.message, promise, c.fn, outcome, c.registered, c.call)
  /\ inflight' = RemoveAt(inflight, i)
  /\ UNCHANGED registryVars
  /\ NandaUnchanged

----------------------------------------------------------------------------
(* NANDA: the agent *)

Agents == {"a1", "a2"}

\* a caller passing null where a Message is expected
Null == <<>>

IsNull(message) == DOMAIN message = {}

\* a message object without a content array
HasContent(message) == "content" \in DOMAIN message

\* storeMessage that skips a message whose id the conversation already holds
storeMessage_dedup(store, message) ==
  IF \E i \in 1..Len(store) : store[i].id = message.conversationId
  THEN [i \in 1..Len(store) |->
          IF store[i].id = message.conversationId
             /\ ~\E k \in 1..Len(store[i].messages) : store[i].messages[k].id = message.id
          THEN [store[i] EXCEPT !.messages = Append(@, message)]
          ELSE store[i]]
  ELSE Append(store, [id |-> message.conversationId, messages |-> <<message>>])

\* storeMessage that puts the new message first (unshift instead of push)
storeMessage_prepend(store, message) ==
  IF \E i \in 1..Len(store) : store[i].id = message.conversationId
  THEN [i \in 1..Len(store) |->
          IF store[i].id = message.conversationId
          THEN [store[i] EXCEPT !.messages = <<message>> \o @]
          ELSE store[i]]
  ELSE Append(store, [id |-> message.conversationId, messages |-> <<message>>])

\* storeMessage that only appends to a conversation that already exists
storeMessage_noCreate(store, message) ==
  IF \E i \in 1..Len(store) : store[i].id = message.conversationId
  THEN [i \in 1..Len(store) |->
          IF store[i].id = message.conversationId
          THEN [store[i] EXCEPT !.messages = Append(@, message)]
          ELSE store[i]]
  ELSE store

\* storeMessage: get or lazily create the conversation, then push
storeMessage(store, message) ==
  IF \E i \in 1..Len(store) : store[i].id = message.conversationId
  THEN [i \in 1..Len(store) |->
          IF store[i].id = message.conversationId
          THEN [store[i] EXCEPT !.messages = Append(@, message)]
          ELSE store[i]]
  ELSE Append(store, [id |-> message.conversationId, messages |-> <<message>>])

\* message.content[0]?.content || ''
firstText(message) ==
  IF Len(message.content) = 0 THEN <<>> ELSE message.content[1].content

\* the result of a call with improvement switched off, typed as a default improvement
skippedResult_default(message) ==
  [originalMessage |-> firstText(message), improvedMessage |-> firstText(message),
   improvementType |-> "default",
   metadata |-> [messageId |-> message.id, conversationId |-> message.conversationId]]

\* return { originalMessage, improvedMessage, improvementType: 'none', metadata }
skippedResult(message) ==
  [originalMessage |-> firstText(message), improvedMessage |-> firstText(message),
   improvementType |-> "none",
   metadata |-> [messageId |-> message.id, conversationId |-> message.conversationId]]

\* the counter incremented only once the message has been read and stored
counted_afterStore(count, message) ==
  IF IsNull(message) \/ ~HasContent(message) THEN count ELSE count + 1

\* this.messageCount++, the first statement of the try block: whatever the message
counted(count, message) == count + 1

\* the message handler of setupMessagePipeline, waiting on `await
\* this.processMessage(message)`: `settled` is the promise of that call once it
\* has one
Handler(agent, name, message, context, fn, settled, call) ==
  [api |-> "onMessage", agent |-> agent, name |-> name, message |-> message,
   context |-> context, fn |-> fn, registered |-> hasOwn(name), call |-> call,
   settled |-> settled]

\* processMessage(message, options) on agent a, up to the await or to its
\* return: called by the program (api "processMessage"), or by the message
\* handler for a message the bridge delivers (api "onMessage"), which then
\* waits for it while simulateMessage returns
dispatch(a, message, options, api) ==
  LET call == [message |-> message, options |-> options,
               seq |-> calls[a] + 1, active |-> activeImprover,
               running |-> lifecycle[a].isRunning, log |-> lifecycle[a].log]
      delivered == [op |-> "simulateMessage", agent |-> a, threw |-> FALSE,
                    pre |-> lifecycle[a], call |-> call]
      returns(name, text, promise) ==
        IF api = "processMessage"
        THEN /\ last' = Returned("processMessage", a, name, text, promise,
                                 Undefined, Undefined, FALSE, call)
             /\ UNCHANGED inflight
        ELSE /\ Len(inflight) < MaxInflight
             /\ inflight' = Append(inflight,
                    Handler(a, name, text, Undefined, Undefined, promise, call))
             /\ last' = delivered
      awaits(name, text, context, improver) ==
        /\ Len(inflight) < MaxInflight
        /\ IF api = "processMessage"
           THEN /\ inflight' = Append(inflight,
                       Suspended("processMessage", a, name, text, context, improver, call))
                /\ UNCHANGED last
           ELSE /\ inflight' = Append(inflight,
                       Handler(a, name, text, context, improver, [state |-> "pending"], call))
                /\ last' = delivered
  IN
  /\ calls[a] < MaxCalls
  /\ calls' = [calls EXCEPT ![a] = @ + 1]
  /\ arrivals' = [arrivals EXCEPT ![a] = Append(@, [kind |-> "message", message |-> message])]
  /\ messageCount' = [messageCount EXCEPT ![a] = counted(@, message)]
  /\ UNCHANGED <<registryVars, lifecycleVars>>
  /\ IF IsNull(message)
     THEN \* message.conversationId throws; catch logs and rethrows
          /\ returns(Undefined, Undefined, rethrow(TypeErrorRead))
          /\ UNCHANGED conversations
     ELSE
       /\ conversations' = [conversations EXCEPT ![a] = storeMessage(@, message)]
       /\ IF ~HasContent(message)
          THEN \* message.content[0] throws; catch logs and rethrows
               returns(Undefined, Undefined, rethrow(TypeErrorRead))
          ELSE IF options.improveMessage # "false"
          THEN LET improverName == OrElse(options.improverName, getActive)
                   text     == firstText(message)
                   context  == [conversationId |-> message.conversationId,
                                messageId |-> message.id, role |-> message.role]
                   improver == lookup(improverName)
               IN  IF improver = Undefined
                   THEN returns(improverName, text,
                                Fulfilled(noneResult(text, "Improver not found")))
                   ELSE awaits(improverName, text, context, improver)
          ELSE returns(Undefined, firstText(message), Fulfilled(skippedResult(message)))

\* a processMessage that refuses its message while the agent is not running
processMessage_gated(a, message, options) ==
  IF lifecycle[a].isRunning
  THEN dispatch(a, message, options, "processMessage")
  ELSE /\ calls[a] < MaxCalls
       /\ calls' = [calls EXCEPT ![a] = @ + 1]
       /\ arrivals' = [arrivals EXCEPT ![a] = Append(@, [kind |-> "message", message |-> message])]
       /\ last' = Returned("processMessage", a, Undefined, Undefined, Rejected(ErrorBoom),
                           Undefined, Undefined, FALSE,
                           [message |-> message, options |-> options, seq |-> calls[a] + 1,
                            active |-> activeImprover, running |-> FALSE,
                            log |-> lifecycle[a].log])
       /\ UNCHANGED <<registryVars, lifecycleVars, messageCount, conversations, inflight>>

\* processMessage(message, options) called on agent a
processMessage(a, message, options) == dispatch(a, message, options, "processMessage")

\* this.conversations.has(conversationId)
hasConversation(store, conversationId) ==
  \E i \in 1..Len(store) : store[i].id = conversationId

\* getConversation(conversationId); Undefined when there is none
getConversation(store, conversationId) ==
  IF hasConversation(store, conversationId)
  THEN store[CHOOSE i \in 1..Len(store) : store[i].id = conversationId]
  ELSE [id |-> Undefined]

deletes(a) == Cardinality({i \in 1..Len(arrivals[a]) : arrivals[a][i].kind = "delete"})

\* deleteConversation that reports success whether or not the key existed
deleteConversation_reportsTrue(a, conversationId) ==
  /\ deletes(a) < MaxDeletes
  /\ arrivals' = [arrivals EXCEPT ![a] = Append(@, [kind |-> "delete", id |-> conversationId])]
  /\ conversations' = [conversations EXCEPT ![a] =
                          SelectSeq(@, LAMBDA c : c.id # conversationId)]
  /\ last' = [op |-> "deleteConversation", agent |-> a, id |-> conversationId,
              ret |-> TRUE, pre |-> conversations[a]]
  /\ UNCHANGED <<registryVars, lifecycleVars, messageCount, calls, inflight>>

\* deleteConversation(conversationId): Map.delete reports whether the key existed
deleteConversation(a, conversationId) ==
  /\ deletes(a) < MaxDeletes
  /\ arrivals' = [arrivals EXCEPT ![a] = Append(@, [kind |-> "delete", id |-> conversationId])]
  /\ conversations' = [conversations EXCEPT ![a] =
                          SelectSeq(@, LAMBDA c : c.id # conversationId)]
  /\ last' = [op |-> "deleteConversation", agent |-> a, id |-> conversationId,
              ret |-> hasConversation(conversations[a], conversationId),
              pre |-> conversations[a]]
  /\ UNCHANGED <<registryVars, lifecycleVars, messageCount, calls, inflight>>

\* the identifiers uuidv4() draws from
UUIDs == {"u1", "u2", "u3"}

\* the identifiers uuidv4() has returned so far, to any agent of the process
issuedUuids ==
  {arrivals[a][i].id : <<a, i>> \in
     {p \in Agents \X (1..(MaxCalls + MaxDeletes + MaxCreates + 3)) :
        p[2] <= Len(arrivals[p[1]]) /\ arrivals[p[1]][p[2]].kind = "create"}}

\* uuidv4(): a random version-4 identifier; the values it can return are those
\* it has not returned before
uuidv4 == UUIDs \ issuedUuids

creates(a) == Cardinality({i \in 1..Len(arrivals[a]) : arrivals[a][i].kind = "create"})

\* Map.set that starts a new map holding only the new entry
setConversation_reset(store, conversation) == <<conversation>>

\* this.conversations.set(id, conversation): a new key goes last, an existing
\* key keeps its place and gets the new value
setConversation(store, conversation) ==
  IF hasConversation(store, conversation.id)
  THEN [i \in 1..Len(store) |->
          IF store[i].id = conversation.id THEN conversation ELSE store[i]]
  ELSE Append(store, conversation)

\* createConversation(): a conversation under a new uuid, with no messages
\* (its metadata and timestamps are left out)
createConversation(a) ==
  /\ creates(a) < MaxCreates
  /\ \E conversationId \in uuidv4 :
       LET conversation == [id |-> conversationId, messages |-> <<>>]
       IN  /\ conversations' = [conversations EXCEPT ![a] = setConversation(@, conversation)]
           /\ arrivals' = [arrivals EXCEPT ![a] =
                              Append(@, [kind |-> "create", id |-> conversationId])]
           /\ last' = [op |-> "createConversation", agent |-> a, ret |-> conversation,
                       pre |-> conversations[a]]
  /\ UNCHANGED <<registryVars, lifecycleVars, messageCount, calls, inflight>>

----------------------------------------------------------------------------
(* NANDA: start and stop, with AgentBridge, ApiServer and RegistryClient *)

\* the agent after its constructor: nothing runs, ApiServer.server is not set
\* (server = 0); servers holds the state of every http.Server that app.listen
\* created, pending the start and stop calls parked at an await, log the calls
\* that have returned
\* setupMessagePipeline(): one message handler and one error handler are pushed
\* on the bridge's lists
setupMessagePipeline ==
  [messageHandlers |-> <<"processMessage">>, errorHandlers |-> <<"logger.error">>]

\* the bridge's lists hold the handlers of setupMessagePipeline; errors are the
\* values passed to the error handlers so far; config is the constructor's
\* defaults (the agent's id is the index a)
Created ==
  [isRunning |-> FALSE, bridgeRunning |-> FALSE, apiRunning |-> FALSE,
   isRegistered |-> FALSE, server |-> 0, servers |-> <<>>, pending |-> <<>>, log |-> <<>>,
   messageHandlers |-> setupMessagePipeline.messageHandlers,
   errorHandlers |-> setupMessagePipeline.errorHandlers,
   errors |-> <<>>,
   config |-> [port |-> 6000, apiPort |-> 6001, ssl |-> FALSE, logLevel |-> "info"]]

isAgentRunning(a) == lifecycle[a].isRunning

\* getStatus(): status and messageCount; uptime and endpoints are left out
getStatus(a) ==
  [agentId |-> a,
   status |-> IF lifecycle[a].isRunning THEN "running" ELSE "stopped",
   messageCount |-> messageCount[a]]

\* start and stop calls made so far on agent a
issued(a) == Len(lifecycle[a].log) + Len(lifecycle[a].pending)

\* the api port is bound by a server of this agent
portInUse(a) ==
  \E k \in 1..Len(lifecycle[a].servers) : lifecycle[a].servers[k] \in {"starting", "listening"}

ErrorListen == [type |-> "Error", message |-> "listen EADDRINUSE"]

\* a lifecycle call returns: it leaves pending and enters the log
returned(l, i, op, state) ==
  [l EXCEPT !.pending = RemoveAt(@, i), !.log = Append(@, [op |-> op, state |-> state])]

\* start(): up to `await this.agentBridge.start()`, which has set the bridge running
start(a) ==
  /\ issued(a) < MaxLifecycle
  /\ lifecycle' = [lifecycle EXCEPT ![a] =
         [@ EXCEPT !.bridgeRunning = TRUE,
                   !.pending = Append(@, [op |-> "start", pc |-> "bridge", server |-> 0,
                                             caller |-> "start"])]]
  /\ UNCHANGED <<registryVars, messageVars, inflight, last>>

\* start(): apiServer.start() calls app.listen, which creates a server and binds
\* the port at once; the bind fails when the port is taken (by a server of this
\* agent, or by another process)
startApi(a, i) ==
  /\ i \in 1..Len(lifecycle[a].pending)
  /\ lifecycle[a].pending[i].op = "start"
  /\ lifecycle[a].pending[i].pc = "bridge"
  /\ \E bind \in (IF portInUse(a) THEN {"failing"} ELSE {"starting", "failing"}) :
       lifecycle' = [lifecycle EXCEPT ![a] =
         [@ EXCEPT !.servers = Append(@, bind),
                   !.server = Len(lifecycle[a].servers) + 1,
                   !.pending[i] = [@ EXCEPT !.pc = "listen",
                                            !.server = Len(lifecycle[a].servers) + 1]]]
  /\ UNCHANGED <<registryVars, messageVars, inflight, last>>

\* start(): the server of the call emits 'listening' or 'error'.  On 'listening'
\* the callback sets ApiServer.isRunning and start goes on to register().  On
\* 'error' the promise is rejected and start rethrows (express 4), or the listen
\* callback is run first with the error and resolves the promise (express 5).
\* A server closed before it listened emits neither.
startListen(a, i) ==
  /\ i \in 1..Len(lifecycle[a].pending)
  /\ lifecycle[a].pending[i].op = "start"
  /\ lifecycle[a].pending[i].pc = "listen"
  /\ LET k == lifecycle[a].pending[i].server
         listening(state) == [lifecycle[a] EXCEPT !.servers[k] = state,
                                                  !.apiRunning = TRUE,
                                                  !.pending[i].pc = "register"]
     IN  \/ /\ lifecycle[a].servers[k] = "starting"
            /\ lifecycle' = [lifecycle EXCEPT ![a] = listening("listening")]
            /\ UNCHANGED last
         \/ /\ lifecycle[a].servers[k] = "failing"
            /\ \E express \in {"express4", "express5"} :
                 IF express = "express4"
                 THEN /\ lifecycle' = [lifecycle EXCEPT ![a] =
                            returned([lifecycle[a] EXCEPT !.servers[k] = "failed"],
                                     i, lifecycle[a].pending[i].caller, "rejected")]
                      /\ last' = [op |-> lifecycle[a].pending[i].caller, agent |-> a,
                                  promise |-> Rejected(ErrorListen),
                                  response |-> Undefined, pre |-> lifecycle[a]]
                 ELSE /\ lifecycle' = [lifecycle EXCEPT ![a] = listening("failed")]
                      /\ UNCHANGED last
  /\ UNCHANGED <<registryVars, messageVars, inflight>>

\* the end of start() that resolves without setting isRunning
startDone_noFlag(a, i) ==
  /\ i \in 1..Len(lifecycle[a].pending)
  /\ lifecycle[a].pending[i].op = "start"
  /\ lifecycle[a].pending[i].pc = "register"
  /\ \E response \in {"200", "400", "error"} :
       /\ lifecycle' = [lifecycle EXCEPT ![a] =
            returned([lifecycle[a] EXCEPT
                        !.isRegistered = CASE response = "200"   -> TRUE
                                           [] response = "400"   -> @
                                           [] response = "error" -> FALSE],
                     i, lifecycle[a].pending[i].caller, "fulfilled")]
       /\ last' = [op |-> lifecycle[a].pending[i].caller, agent |-> a,
                   promise |-> Fulfilled(Undefined),
                   response |-> response, pre |-> lifecycle[a]]
  /\ UNCHANGED <<registryVars, messageVars, inflight>>

\* start(): the registry answers, or the request fails; register() never
\* throws, so whatever the answer isRunning is set and start resolves
startDone(a, i) ==
  /\ i \in 1..Len(lifecycle[a].pending)
  /\ lifecycle[a].pending[i].op = "start"
  /\ lifecycle[a].pending[i].pc = "register"
  /\ \E response \in {"200", "400", "error"} :
       /\ lifecycle' = [lifecycle EXCEPT ![a] =
            returned([lifecycle[a] EXCEPT
                        !.isRegistered = CASE response = "200"   -> TRUE
                                           [] response = "400"   -> @
                                           [] response = "error" -> FALSE,
                        !.isRunning = TRUE],
                     i, lifecycle[a].pending[i].caller, "fulfilled")]
       /\ last' = [op |-> lifecycle[a].pending[i].caller, agent |-> a,
                   promise |-> Fulfilled(Undefined),
                   response |-> response, pre |-> lifecycle[a]]
  /\ UNCHANGED <<registryVars, messageVars, inflight>>

\* stop(): up to `await this.agentBridge.stop()`, which has stopped the bridge
stop(a) ==
  /\ issued(a) < MaxLifecycle
  /\ lifecycle' = [lifecycle EXCEPT ![a] =
         [@ EXCEPT !.bridgeRunning = FALSE,
                   !.pending = Append(@, [op |-> "stop", pc |-> "bridge", server |-> 0,
                                             caller |-> "stop"])]]
  /\ UNCHANGED <<registryVars, messageVars, inflight, last>>

\* apiServer.stop() without the `if (this.server)` test: closing a server that was
\* never created throws, and stop rethrows
stopApi_unguarded(a, i) ==
  /\ i \in 1..Len(lifecycle[a].pending)
  /\ lifecycle[a].pending[i].op = "stop"
  /\ lifecycle[a].pending[i].pc = "bridge"
  /\ LET k == lifecycle[a].server
     IN  IF k = 0
         THEN /\ lifecycle' = [lifecycle EXCEPT ![a] = returned(@, i, "stop", "rejected")]
              /\ last' = [op |-> "stop", agent |-> a, promise |-> Rejected(TypeErrorRead),
                          pre |-> lifecycle[a]]
         ELSE /\ lifecycle' = [lifecycle EXCEPT ![a] =
                    [@ EXCEPT !.servers[k] = IF @ \in {"starting", "listening"} THEN "closed" ELSE @,
                              !.pending[i] = [@ EXCEPT !.pc = "close", !.server = k]]]
              /\ UNCHANGED last
  /\ UNCHANGED <<registryVars, messageVars, inflight>>

\* stop(): apiServer.stop() closes this.server when there is one, which frees
\* the port at once; without a server it resolves with nothing done
stopApi(a, i) ==
  /\ i \in 1..Len(lifecycle[a].pending)
  /\ lifecycle[a].pending[i].op = "stop"
  /\ lifecycle[a].pending[i].pc = "bridge"
  /\ LET k == lifecycle[a].server
     IN  lifecycle' = [lifecycle EXCEPT ![a] =
           IF k = 0
           THEN [@ EXCEPT !.pending[i].pc = "noServer"]
           ELSE [@ EXCEPT !.servers[k] = IF @ \in {"starting", "listening"} THEN "closed" ELSE @,
                          !.pending[i] = [@ EXCEPT !.pc = "close", !.server = k]]]
  /\ UNCHANGED <<registryVars, messageVars, inflight, last>>

\* stop(): the close callback runs (it runs for a server that was not
\* listening too) and clears ApiServer.isRunning; then isRunning is cleared and
\* stop resolves, to its caller or to the restart() that awaits it
stopDone(a, i) ==
  /\ i \in 1..Len(lifecycle[a].pending)
  /\ lifecycle[a].pending[i].op = "stop"
  /\ lifecycle[a].pending[i].pc \in {"close", "noServer"}
  /\ LET stopped == [lifecycle[a] EXCEPT
                       !.apiRunning = IF lifecycle[a].pending[i].pc = "close" THEN FALSE ELSE @,
                       !.isRunning = FALSE]
     IN  IF lifecycle[a].pending[i].caller = "restart"
         THEN /\ lifecycle' = [lifecycle EXCEPT ![a] =
                     [stopped EXCEPT !.pending[i].pc = "stopped"]]
              /\ UNCHANGED last
         ELSE /\ lifecycle' = [lifecycle EXCEPT ![a] = returned(stopped, i, "stop", "fulfilled")]
              /\ last' = [op |-> "stop", agent |-> a, promise |-> Fulfilled(Undefined),
                          pre |-> lifecycle[a]]
  /\ UNCHANGED <<registryVars, messageVars, inflight>>

\* restart(): `await this.stop()`, up to stop's first await
restart(a) ==
  /\ issued(a) < MaxLifecycle
  /\ lifecycle' = [lifecycle EXCEPT ![a] =
         [@ EXCEPT !.bridgeRunning = FALSE,
                   !.pending = Append(@, [op |-> "stop", pc |-> "bridge", server |-> 0,
                                             caller |-> "restart"])]]
  /\ UNCHANGED <<registryVars, messageVars, inflight, last>>

\* a restart() that builds the agent's components anew
restartStart_fresh(a, i) ==
  /\ i \in 1..Len(lifecycle[a].pending)
  /\ lifecycle[a].pending[i].op = "stop"
  /\ lifecycle[a].pending[i].pc = "stopped"
  /\ lifecycle' = [lifecycle EXCEPT ![a] =
         [@ EXCEPT !.bridgeRunning = TRUE,
                   !.pending[i] = [@ EXCEPT !.op = "start", !.pc = "bridge", !.server = 0]]]
  /\ messageCount' = [messageCount EXCEPT ![a] = 0]
  /\ conversations' = [conversations EXCEPT ![a] = <<>>]
  /\ UNCHANGED <<registryVars, calls, arrivals, inflight, last>>

\* restart(): `await this.start()`, up to start's first await
restartStart(a, i) ==
  /\ i \in 1..Len(lifecycle[a].pending)
  /\ lifecycle[a].pending[i].op = "stop"
  /\ lifecycle[a].pending[i].pc = "stopped"
  /\ lifecycle' = [lifecycle EXCEPT ![a] =
         [@ EXCEPT !.bridgeRunning = TRUE,
                   !.pending[i] = [@ EXCEPT !.op = "start", !.pc = "bridge", !.server = 0]]]
  /\ UNCHANGED <<registryVars, messageVars, inflight, last>>

----------------------------------------------------------------------------
(* Initial state: module load constructs the singleton registry; agents are *)
(* constructed with messageCount = 0 and an empty conversation map          *)

Init ==
  /\ improvers = registerDefaultImprovers
  /\ improversProto = "Object.prototype"
  /\ activeImprover = "default"
  /\ messageCount = [a \in Agents |-> 0]
  /\ conversations = [a \in Agents |-> <<>>]
  /\ inflight = <<>>
  /\ calls = [a \in Agents |-> 0]
  /\ arrivals = [a \in Agents |-> <<>>]
  /\ lifecycle = [a \in Agents |-> Created]
  /\ last = [op |-> "init"]

----------------------------------------------------------------------------
(* Inputs *)

TxtEmpty   == <<>>
TxtHello   == <<"h","e","l","l","o">>
TxtHiThere == <<"h","i"," ","t","h","e","r","e">>

\* "ghost" is never registered; "toString" is never registered either, but every
\* object literal inherits a property of that name
Names == {"default", "professional", "creative", "shout", "ghost", "toString"}

TextBlock(text) == [type |-> "text", content |-> text]

M1 == [id |-> "m1", role |-> "user", conversationId |-> "c1", content |-> <<TextBlock(TxtHello)>>]
M2 == [id |-> "m2", role |-> "user", conversationId |-> "c1", content |-> <<>>]
M3 == [id |-> "m3", role |-> "user", conversationId |-> "c2"]

\* a message for a conversation the caller got from createConversation
M4(conversationId) ==
  [id |-> "m4", role |-> "user", conversationId |-> conversationId,
   content |-> <<TextBlock(TxtHello)>>]

----------------------------------------------------------------------------
(* The registry alone: register, setActive, remove in any order *)

NextRegistry ==
  \/ \E name \in {"default", "shout"}, fn \in UserFns : register(name, fn)
  \/ \E name \in Names : setActive(name)
  \/ \E name \in Names : remove(name)

SpecRegistry == Init /\ [][NextRegistry]_vars

(* Registration under every kind of name, and the calls that use the entries *)

NextRegister ==
  \/ \E name \in {"default", "shout", ProtoAccessor}, fn \in {"uppercase", "throwError"} :
       register(name, fn)
  \/ \E name \in {"default", "shout"} : setActive(name)
  \/ \E name \in {"shout", ProtoAccessor} : remove(name)
  \/ \E name \in {"default", "shout", ProtoAccessor, "toString"} : improveWith(name, TxtHello)
  \/ \E i \in 1..MaxInflight : settle(i)

SpecRegister == Init /\ [][NextRegister]_vars

(* The registry with calls of improve and improveWith in flight *)

NextImprove ==
  \/ \E fn \in {"uppercase", "throwEmptyError", "throwString", "throwSymbol", "rejectError"} :
       register("shout", fn)
  \/ \E name \in {"default", "shout"} : setActive(name)
  \/ remove("shout")
  \/ \E name \in {"default", "shout", "toString"} : improveWith(name, TxtHello)
  \/ \E text \in {TxtEmpty, TxtHello} : improveWith("ghost", text)
  \/ \E text \in {TxtHello} : improve(text)
  \/ \E i \in 1..MaxInflight : settle(i)

SpecImprove == Init /\ [][NextImprove]_vars

(* One agent processing messages while the registry changes *)

Options == [improveMessage : {Undefined, "false"}, improverName : {Undefined, "ghost"}]

Next ==
  \/ \E fn \in {"uppercase", "throwError", "throwSymbol", "neverSettles"} : register("shout", fn)
  \/ \E name \in {"default", "shout"} : setActive(name)
  \/ remove("shout")
  \/ \E message \in {M1, M2, M3, Null}, options \in Options : processMessage("a1", message, options)
  \/ \E i \in 1..MaxInflight : settle(i)

Spec == Init /\ [][Next]_vars

(* One agent's conversation store: messages arrive, conversations are deleted *)

ConversationIds == {"c1", "c2"}

NextStore ==
  \/ \E message \in {M1, M2, M3, Null}, improveMessage \in {Undefined, "false"} :
       processMessage("a1", message, [improveMessage |-> improveMessage, improverName |-> Undefined])
  \/ \E conversationId \in ConversationIds : deleteConversation("a1", conversationId)
  \/ \E i \in 1..MaxInflight : settle(i)

SpecStore == Init /\ [][NextStore]_vars

(* One agent's conversation store with conversations created ahead of their     *)
(* messages: the caller uses the ids createConversation returned                *)

NextConversations ==
  \/ \E improveMessage \in {Undefined, "false"} :
       processMessage("a1", M1, [improveMessage |-> improveMessage, improverName |-> Undefined])
  \/ processMessage("a1", M2, [improveMessage |-> "false", improverName |-> Undefined])
  \/ \E conversationId \in issuedUuids :
       processMessage("a1", M4(conversationId), [improveMessage |-> "false", improverName |-> Undefined])
  \/ \E conversationId \in {"c1"} \cup issuedUuids : deleteConversation("a1", conversationId)
  \/ createConversation("a1")
  \/ \E i \in 1..MaxInflight : settle(i)

SpecConversations == Init /\ [][NextConversations]_vars

(* Two agents of one process: each imports the one messageImprover instance *)

NextShared ==
  \/ register("shout", "uppercase")
  \/ \E name \in {"default", "shout"} : setActive(name)
  \/ remove("shout")
  \/ \E message \in {M1, M2} :
       processMessage("a1", message, [improveMessage |-> Undefined, improverName |-> Undefined])
  \/ processMessage("a2", M1, [improveMessage |-> Undefined, improverName |-> Undefined])
  \/ \E i \in 1..MaxInflight : settle(i)

SpecShared == Init /\ [][NextShared]_vars

(* One agent choosing the transform through options.improverName *)

NextOptions ==
  \/ register("shout", "uppercase")
  \/ \E name \in {"default", "shout"} : setActive(name)
  \/ \E improverName \in {Undefined, "", "default", "shout", "ghost", "toString"} :
       processMessage("a1", M1, [improveMessage |-> Undefined, improverName |-> improverName])
  \/ \E i \in 1..MaxInflight : settle(i)

SpecOptions == Init /\ [][NextOptions]_vars

(* One agent started and stopped, while it processes messages *)

NextLifecycle ==
  \/ start("a1")
  \/ \E i \in 1..MaxLifecycle : startApi("a1", i)
  \/ \E i \in 1..MaxLifecycle : startListen("a1", i)
  \/ \E i \in 1..MaxLifecycle : startDone("a1", i)
  \/ stop("a1")
  \/ \E i \in 1..MaxLifecycle : stopApi("a1", i)
  \/ \E i \in 1..MaxLifecycle : stopDone("a1", i)
  \/ processMessage("a1", M1, [improveMessage |-> "false", improverName |-> Undefined])

SpecLifecycle == Init /\ [][NextLifecycle]_vars

(* The seed transform "default" as a function of its input: every short text  *)
(* over a small alphabet, and "hi there"; the transform is applied to the input *)
(* and then to its own output                                                  *)

Alphabet == {"h", "I", " ", ".", "!", "?"}

RECURSIVE Texts(_)
Texts(n) == IF n = 0 THEN {<<>>}
            ELSE Texts(n - 1) \cup {Append(t, c) : t \in Texts(n - 1), c \in Alphabet}

InitDefault ==
  /\ improvers = registerDefaultImprovers
  /\ improversProto = "Object.prototype"
  /\ activeImprover = "default"
  /\ messageCount = [a \in Agents |-> 0]
  /\ conversations = [a \in Agents |-> <<>>]
  /\ inflight = <<>>
  /\ calls = [a \in Agents |-> 0]
  /\ arrivals = [a \in Agents |-> <<>>]
  /\ lifecycle = [a \in Agents |-> Created]
  /\ \E text \in Texts(MaxLen) \cup {TxtHiThere} : last = [op |-> "input", text |-> text]

\* the function registered under "default" is called with the input
applyDefault ==
  /\ last.op = "input"
  /\ lookup("default") = "defaultImprover"
  /\ last' = [op |-> "defaultImprover", input |-> last.text,
              output |-> defaultImprover(last.text), again |-> FALSE]
  /\ UNCHANGED <<registryVars, messageVars, lifecycleVars, inflight>>

\* it is called once more, with what it returned
reapplyDefault ==
  /\ last.op = "defaultImprover"
  /\ ~last.again
  /\ last' = [op |-> "defaultImprover", input |-> last.output,
              output |-> defaultImprover(last.output), again |-> TRUE]
  /\ UNCHANGED <<registryVars, messageVars, lifecycleVars, inflight>>

NextDefault == applyDefault \/ reapplyDefault

SpecDefault == InitDefault /\ [][NextDefault]_vars

----------------------------------------------------------------------------
(* Properties *)

\* name is one of the names list() returned
Listed(names, name) == \E i \in 1..Len(names) : names[i] = name

\* C1: after any sequence of register, remove and setActive calls, the active
\* name is an entry of the registry: getActive() is in list().
C1_ActiveIsRegistered == Listed(list, getActive)

\* C2: when the transform throws or rejects, improveWith returns a result with
\* improvementType "none", improvedMessage = originalMessage and a non-empty
\* metadata.error, whatever the thrown value.
C2_ThrowGivesNonEmptyError ==
  (last.op = "improveWith" /\ last.invoked # Undefined /\ last.outcome.kind = "throw")
    => /\ last.promise.state = "fulfilled"
       /\ last.promise.value.improvementType = "none"
       /\ last.promise.value.improvedMessage = last.promise.value.originalMessage
       /\ last.promise.value.metadata.error # ""

\* C3: improve and improveWith never surface an exception: the promise they
\* return is fulfilled with a result, whether the transform is missing, throws
\* or rejects; and processMessage is not rejected when its transform fails.
C3_NeverRejects ==
  /\ last.op \in {"improve", "improveWith"} => last.promise.state = "fulfilled"
  /\ (last.op = "processMessage" /\ last.invoked # Undefined) => last.promise.state = "fulfilled"

\* C4: improveWith(name, t) with a name that is not registered returns
\* originalMessage = improvedMessage = t, improvementType "none" and
\* metadata.error "Improver not found", and invokes no transform.
C4_UnregisteredGivesNone ==
  (last.op = "improveWith" /\ ~last.registered)
    => /\ last.invoked = Undefined
       /\ last.promise = Fulfilled(noneResult(last.message, "Improver not found"))

\* C5: messageCount goes up by exactly one per processMessage call, whatever
\* the call's outcome: on every agent the counter equals the number of calls made.
C5_CountEqualsCalls == \A a \in Agents : messageCount[a] = calls[a]

\* C5 witness: a call has just failed with an exception after at least one
\* message was stored, and every call so far has been counted
C5_Witness ==
  /\ messageCount["a1"] >= 2
  /\ last.op = "processMessage"
  /\ last.promise.state = "rejected"
  /\ Len(conversations["a1"]) >= 1

\* C6: for every registered name n, setActive(n) returns true and afterwards
\* getActive() = n.
C6_SetActiveRegistered ==
  (last.op = "setActive" /\ Listed(last.pre.list, last.name))
    => (last.ret = TRUE /\ getActive = last.name)

C6_Witness ==
  /\ last.op = "setActive"
  /\ last.name = "shout"
  /\ Listed(last.pre.list, "shout")
  /\ last.pre.active = "default"
  /\ getActive = "shout"

\* C7: setActive on a name that is not registered returns false and leaves
\* getActive() and the registry contents unchanged.
C7_SetActiveUnregistered ==
  (last.op = "setActive" /\ ~Listed(last.pre.list, last.name))
    => /\ last.ret = FALSE
       /\ getActive = last.pre.active
       /\ improvers = last.pre.improvers

\* C8: "default" is in list() in every reachable state, and remove("default")
\* returns false and changes neither the registry nor the active name.
C8_DefaultAlwaysListed ==
  /\ Listed(list, "default")
  /\ (last.op = "remove" /\ last.name = "default")
       => /\ last.ret = FALSE
          /\ improvers = last.pre.improvers
          /\ getActive = last.pre.active

C8_Witness ==
  /\ last.op = "remove"
  /\ last.name = "default"
  /\ lookup("default") \in UserFns
  /\ getActive = "shout"

\* C9: after remove(a) of the active name a # "default", getActive() = "default"
\* and a is not in list(); removing any other name leaves the active name as it was.
C9_RemoveActiveResets ==
  last.op = "remove" =>
    IF last.name = last.pre.active /\ last.name # "default"
    THEN getActive = "default" /\ ~Listed(list, last.name)
    ELSE getActive = last.pre.active

C9_Witness ==
  /\ last.op = "remove"
  /\ last.name = "shout"
  /\ last.pre.active = "shout"
  /\ Listed(last.pre.list, "shout")
  /\ getActive = "default"

\* C10: for a name other than "default", remove(name) returns whether an entry
\* existed: true if the name was registered, false if not, and then registry
\* and active name are unchanged.
C10_RemoveReportsExistence ==
  (last.op = "remove" /\ last.name # "default")
    => /\ last.ret = Listed(last.pre.list, last.name)
       /\ ~Listed(last.pre.list, last.name)
            => (improvers = last.pre.improvers /\ getActive = last.pre.active)


\* what a conversation must hold after a sequence of arrivals and deletions:
\* the messages that arrived for it since it was last created
RECURSIVE expected(_, _)
expected(events, id) ==
  IF events = <<>> THEN [present |-> FALSE, messages |-> <<>>]
  ELSE LET prev == expected(SubSeq(events, 1, Len(events) - 1), id)
           e    == events[Len(events)]
       IN  IF e.kind = "delete"
           THEN IF e.id = id THEN [present |-> FALSE, messages |-> <<>>] ELSE prev
           ELSE IF e.kind = "create"
           THEN IF e.id = id THEN [present |-> TRUE, messages |-> <<>>] ELSE prev
           ELSE IF IsNull(e.message) THEN prev
           ELSE IF e.message.conversationId # id THEN prev
           ELSE [present |-> TRUE, messages |-> Append(prev.messages, e.message)]

\* C11: within one agent, a conversation holds exactly the messages passed to
\* processMessage with its id since it was last created, in call order, with
\* nothing reordered, dropped or deduplicated.
C11_ConversationIsArrivals ==
  \A a \in Agents : \A id \in ConversationIds :
    LET e == expected(arrivals[a], id)
    IN  /\ e.present <=> hasConversation(conversations[a], id)
        /\ e.present => getConversation(conversations[a], id).messages = e.messages

\* C11 witness: c1 was deleted and created again, and then got the same message
\* twice after another one
C11_Witness ==
  /\ deletes("a1") = 1
  /\ Len(arrivals["a1"]) = 4
  /\ arrivals["a1"][1].kind = "message"
  /\ hasConversation(conversations["a1"], "c1")
  /\ getConversation(conversations["a1"], "c1").messages = <<M1, M1>>

\* new is old with one message pushed at the end of one conversation, which is
\* created at the end of the store if it did not exist
appended(old, new, message) ==
  \/ /\ Len(new) = Len(old)
     /\ \E i \in 1..Len(old) :
          /\ new[i] = [old[i] EXCEPT !.messages = Append(@, message)]
          /\ \A j \in 1..Len(old) : j # i => new[j] = old[j]
  \/ /\ Len(new) = Len(old) + 1
     /\ SubSeq(new, 1, Len(old)) = old
     /\ new[Len(new)].messages = <<message>>

\* C12: with processMessage calls overlapping, messages enter a conversation in
\* the order the calls were made: a conversation only ever changes in the step that
\* dispatches a call, by that call's message being pushed at its end; the steps in
\* which transforms complete, in whatever order, leave every conversation as it is.
C12_AppendInDispatchOrder ==
  [][\A a \in Agents :
       conversations'[a] # conversations[a] =>
         /\ calls'[a] = calls[a] + 1
         /\ inflight' = inflight \/ Len(inflight') = Len(inflight) + 1
         /\ appended(conversations[a], conversations'[a],
                     arrivals'[a][Len(arrivals'[a])].message)]_vars

\* C12 witness: m1 then m2 were dispatched for c1, m2's transform has completed
\* and m1's has not
C12_Witness ==
  /\ Len(inflight) = 1
  /\ inflight[1].api = "processMessage"
  /\ inflight[1].call.message = M1
  /\ inflight[1].call.seq = 1
  /\ last.op = "processMessage"
  /\ last.invoked # Undefined
  /\ last.call.message = M2
  /\ last.call.seq = 2
  /\ conversations["a1"] = <<[id |-> "c1", messages |-> <<M1, M2>>]>>

\* C13: the improvementType and metadata.improver of improve's result describe
\* the transform that was invoked, also when setActive or remove changes the
\* active name while the transform is awaited.
C13_ImproveSnapshot ==
  (last.op = "improve" /\ last.invoked # Undefined /\ last.outcome.kind = "return")
    => /\ last.promise.state = "fulfilled"
       /\ last.promise.value.metadata.improver = last.name
       /\ last.promise.value.improvementType
            = (IF last.name = "default" THEN "default" ELSE "custom")

\* the message of the call is in its conversation on agent a
stored(a, message) ==
  /\ hasConversation(conversations[a], message.conversationId)
  /\ \E k \in 1..Len(getConversation(conversations[a], message.conversationId).messages) :
       getConversation(conversations[a], message.conversationId).messages[k] = message

\* C14: processMessage with improveMessage false invokes no transform and
\* returns type "none" with improvedMessage = originalMessage = the first content
\* block's text (or the empty string) and metadata {messageId, conversationId};
\* the message is still counted and appended.
C14_DisabledGivesNone ==
  (last.op = "processMessage" /\ HasContent(last.call.message)
     /\ last.call.options.improveMessage = "false")
    => /\ last.invoked = Undefined
       /\ last.promise = Fulfilled(
            [originalMessage |-> IF last.call.message.content = <<>> THEN <<>>
                                 ELSE last.call.message.content[1].content,
             improvedMessage |-> IF last.call.message.content = <<>> THEN <<>>
                                 ELSE last.call.message.content[1].content,
             improvementType |-> "none",
             metadata |-> [messageId |-> last.call.message.id,
                           conversationId |-> last.call.message.conversationId]])
       /\ messageCount[last.agent] >= last.call.seq
       /\ stored(last.agent, last.call.message)

C14_Witness ==
  /\ last.op = "processMessage"
  /\ last.call.options.improveMessage = "false"
  /\ last.call.message = M1
  /\ last.promise.state = "fulfilled"
  /\ last.promise.value.improvedMessage = TxtHello
  /\ getActive = "shout"

\* C15: with improvement enabled, processMessage applies the transform named
\* by options.improverName when that option is given, else the one active at the
\* time of the call; a given name that is not registered gives a "none" result
\* and no transform is invoked.
C15_ResolvesGivenOrActive ==
  (last.op = "processMessage" /\ HasContent(last.call.message)
     /\ last.call.options.improveMessage # "false")
    => LET given    == last.call.options.improverName # Undefined
           resolved == IF given THEN last.call.options.improverName ELSE last.call.active
       IN  /\ last.name = resolved
           /\ (given /\ ~last.registered)
                => (last.invoked = Undefined /\ last.promise.state = "fulfilled"
                    /\ last.promise.value.improvementType = "none")

\* C16: every processMessage call has put its message in the store, creating the
\* conversation when the id was unknown, before its transform is invoked: the
\* message of a call whose transform is pending, and of a call that has returned,
\* whatever its outcome, is in its conversation.
C16_StoredBeforeTransform ==
  /\ \A i \in 1..Len(inflight) :
       inflight[i].api = "processMessage" => stored(inflight[i].agent, inflight[i].call.message)
  /\ (last.op = "processMessage" /\ ~IsNull(last.call.message))
       => stored(last.agent, last.call.message)

\* C16 witness: a transform that never completes is pending, a second
\* conversation has been created for a later message, and the last call threw
C16_Witness ==
  /\ \E i \in 1..Len(inflight) : inflight[i].fn = "neverSettles"
  /\ Len(conversations["a1"]) = 2
  /\ last.op = "processMessage"
  /\ last.promise.state = "rejected"
  /\ ~IsNull(last.call.message)

\* C17: on success improve and improveWith return improvementType "default"
\* exactly when the resolved name is "default", and "custom" for any other name.
C17_TypeFollowsResolvedName ==
  (last.op \in {"improve", "improveWith"} /\ last.invoked # Undefined
     /\ last.outcome.kind = "return")
    => /\ last.promise.state = "fulfilled"
       /\ last.promise.value.improvementType \in {"default", "custom"}
       /\ last.promise.value.improvementType = "default" <=> last.name = "default"

\* C19: improveWith leaves the registry as it is: the step that makes the call
\* and the step in which the awaited transform completes change neither the
\* active name nor the registered entries.
C19_ImproveWithFrame ==
  [][(inflight' # inflight \/ last'.op = "improveWith") => UNCHANGED registryVars]_vars

\* C19 witness: improveWith has returned for a registered name that is not the
\* active one, after its transform threw
C19_Witness ==
  /\ last.op = "improveWith"
  /\ last.name = "shout"
  /\ last.registered
  /\ last.outcome.kind = "throw"
  /\ getActive = "default"

\* C18: register always succeeds and the last write wins: after register(n, f),
\* also when n was registered before, list() contains n exactly once, the entry
\* of n is f, so that improveWith(n, t) applies f, and the active name is unchanged.
C18_RegisterLastWriteWins ==
  last.op = "register"
    => /\ Cardinality({i \in 1..Len(list) : list[i] = last.name}) = 1
       /\ lookup(last.name) = last.fn
       /\ getActive = last.pre.active

\* C20: the lifecycle is Created -> (start) -> Running -> (stop) -> Stopped ->
\* (start) -> Running: when start() has resolved the agent is running and its
\* status is "running", when stop() has resolved it is not running and its status
\* is "stopped", and no other status than these two is ever reported.
C20_LifecycleStates ==
  /\ \A a \in Agents : getStatus(a).status \in {"running", "stopped"}
  /\ (last.op = "start" /\ last.promise.state = "fulfilled")
       => (isAgentRunning(last.agent) /\ getStatus(last.agent).status = "running")
  /\ (last.op = "stop" /\ last.promise.state = "fulfilled")
       => (~isAgentRunning(last.agent) /\ getStatus(last.agent).status = "stopped")

\* C20 witness: start, stop and start again have resolved, in that order; the
\* first server was closed by stop and the agent is running on a second one
C20_Witness ==
  /\ lifecycle["a1"].log = <<[op |-> "start", state |-> "fulfilled"],
                             [op |-> "stop",  state |-> "fulfilled"],
                             [op |-> "start", state |-> "fulfilled"]>>
  /\ lifecycle["a1"].servers = <<"closed", "listening">>
  /\ isAgentRunning("a1")
  /\ getStatus("a1").status = "running"

\* C21: whenever start() fails because the inbound channel or the HTTP surface
\* fails to start, the error reaches the caller and the agent is not running after
\* the call, whatever its state before the call.
C21_FailedStartNotRunning ==
  (last.op = "start" /\ last.promise.state = "rejected") => ~isAgentRunning(last.agent)

\* C22: a failure of directory registration during start(), whether an error or a
\* status other than 200, never aborts startup: start() resolves, the agent is
\* running, and the directory client is left unregistered.
C22_RegistrationBestEffort ==
  (last.op = "start" /\ last.response \in {"400", "error"})
    => /\ last.promise.state = "fulfilled"
       /\ isAgentRunning(last.agent)
       /\ ~lifecycle[last.agent].isRegistered

\* C23: stop() unregisters: after a start() that registered with the directory,
\* followed by stop(), the directory client is no longer registered.
C23_StopUnregisters ==
  (last.op = "stop" /\ last.promise.state = "fulfilled")
    => ~lifecycle[last.agent].isRegistered

\* C24: stop() is idempotent on a stopped agent: called on an agent that was never
\* started, or called again after a stop, it raises no error and the agent is not
\* running afterwards.
C24_StopIdempotent ==
  last.op = "stop"
    => /\ last.promise.state = "fulfilled"
       /\ ~isAgentRunning(last.agent)

\* C24 witness: after a start and a stop have resolved, a second stop has
\* resolved too, on the server the first stop had already closed
C24_Witness ==
  /\ last.op = "stop"
  /\ lifecycle["a1"].log = <<[op |-> "start", state |-> "fulfilled"],
                             [op |-> "stop",  state |-> "fulfilled"],
                             [op |-> "stop",  state |-> "fulfilled"]>>
  /\ last.pre.servers = <<"closed">>
  /\ ~last.pre.isRunning
  /\ ~isAgentRunning("a1")

\* C25: the agents of one process share one transform registry, and nothing
\* else: whichever agent processes a message, the transform applied is the one
\* active in the single registry when the call was made, whoever registered or
\* selected it; each agent's messageCount counts its own calls only and each
\* agent's conversations hold its own messages only.
C25_SharedRegistrySeparateStores ==
  /\ (last.op = "processMessage" /\ last.call.options.improverName = Undefined)
       => /\ last.name = last.call.active
          /\ last.promise.state = "fulfilled"
          /\ last.promise.value.metadata.improver = last.call.active
  /\ \A a \in Agents :
       /\ messageCount[a] = Len(arrivals[a])
       /\ \A id \in ConversationIds :
            LET e == expected(arrivals[a], id)
            IN  IF e.present
                THEN getConversation(conversations[a], id).messages = e.messages
                ELSE ~hasConversation(conversations[a], id)

\* C25 witness: a1 has processed m2; a2's call for m1 has come back in upper
\* case from "shout", registered and selected through the shared registry; both
\* agents have a conversation c1, each with its own message
C25_Witness ==
  /\ last.op = "processMessage"
  /\ last.agent = "a2"
  /\ last.name = "shout"
  /\ last.promise.value.improvedMessage = <<"H","E","L","L","O">>
  /\ messageCount = [a \in Agents |-> 1]
  /\ conversations["a1"] = <<[id |-> "c1", messages |-> <<M2>>]>>
  /\ conversations["a2"] = <<[id |-> "c1", messages |-> <<M1>>]>>

\* the step has added one event to the log old of an agent, giving new
logged(old, new) == Len(new) = Len(old) + 1

\* every conversation other than id is in new exactly as it is in old
othersKept(old, new, id) ==
  \A other \in (ConversationIds \cup UUIDs) \ {id} :
    /\ hasConversation(new, other) <=> hasConversation(old, other)
    /\ hasConversation(old, other) => getConversation(new, other) = getConversation(old, other)

\* C26: deleteConversation(id) returns true exactly when a conversation with
\* that id existed, and then it is gone with its messages; otherwise it returns
\* false and the store is unchanged.  No other step removes a conversation, and a
\* message that arrives for an id the store does not hold starts a conversation
\* with that message alone.
C26_DeleteOnlyExplicit ==
  [][\A a \in Agents :
       LET old == conversations[a]
           new == conversations'[a]
           e   == arrivals'[a][Len(arrivals'[a])]
       IN  IF logged(arrivals[a], arrivals'[a]) /\ e.kind = "delete"
           THEN /\ last'.op = "deleteConversation"
                /\ last'.ret = hasConversation(old, e.id)
                /\ ~hasConversation(new, e.id)
                /\ othersKept(old, new, e.id)
                /\ ~last'.ret => new = old
           ELSE /\ \A id \in ConversationIds \cup UUIDs :
                     hasConversation(old, id) => hasConversation(new, id)
                /\ (logged(arrivals[a], arrivals'[a]) /\ e.kind = "message"
                      /\ ~IsNull(e.message) /\ ~hasConversation(old, e.message.conversationId))
                     => getConversation(new, e.message.conversationId).messages = <<e.message>>
    ]_vars

\* C26 witness: c1 held m1 and m2 when it was deleted, and m2, which arrived
\* for c1 afterwards, is alone in a new conversation c1
C26_Witness ==
  /\ arrivals["a1"] = <<[kind |-> "message", message |-> M1],
                        [kind |-> "message", message |-> M2],
                        [kind |-> "delete", id |-> "c1"],
                        [kind |-> "message", message |-> M2]>>
  /\ last.op = "processMessage"
  /\ last.call.seq = 3
  /\ conversations["a1"] = <<[id |-> "c1", messages |-> <<M2>>]>>

\* C27: createConversation adds a conversation whose id is not an id of the
\* store, with an empty message list, returns it, and leaves every conversation
\* the store already held as it was.
C27_CreateIsFresh ==
  [][\A a \in Agents :
       LET old == conversations[a]
           new == conversations'[a]
           e   == arrivals'[a][Len(arrivals'[a])]
       IN  (logged(arrivals[a], arrivals'[a]) /\ e.kind = "create")
             => /\ last'.op = "createConversation"
                /\ last'.ret.id = e.id
                /\ ~hasConversation(old, e.id)
                /\ hasConversation(new, e.id)
                /\ getConversation(new, e.id) = last'.ret
                /\ last'.ret.messages = <<>>
                /\ Len(new) = Len(old) + 1
                /\ othersKept(old, new, e.id)
    ]_vars

\* C27 witness: a second conversation has been created while the store held the
\* first created one, with a message in it, and c1
C27_Witness ==
  /\ last.op = "createConversation"
  /\ Len(last.pre) = 2
  /\ \E i \in 1..2 : last.pre[i].id \in UUIDs /\ last.pre[i].messages # <<>>
  /\ \E i \in 1..2 : last.pre[i].id = "c1"
  /\ Len(conversations["a1"]) = 3
  /\ conversations["a1"][3] = last.ret

\* C28: an exception raised in processMessage outside the transform call, as
\* when the message is null or has no content array to read, reaches the caller
\* as a failure of processMessage; it is not turned into a "none" result.
C28_OutsideErrorsPropagate ==
  (last.op = "processMessage" /\ (IsNull(last.call.message) \/ ~HasContent(last.call.message)))
    => /\ last.invoked = Undefined
       /\ last.promise.state = "rejected"
       /\ last.promise.reason = TypeErrorRead

\* C28 witness: with improvement switched off, a message without a content
\* array was stored and the call then failed reading it
C28_Witness ==
  /\ last.op = "processMessage"
  /\ last.call.message = M3
  /\ last.call.options.improveMessage = "false"
  /\ last.promise.state = "rejected"
  /\ stored("a1", M3)

\* C29: end to end: with "shout" registered as the upper-casing transform and
\* made active, processMessage of m1 ("hello", conversation c1) returns
\* originalMessage "hello", improvedMessage "HELLO" and improvementType "custom",
\* and c1 then holds exactly m1.
C29_ShoutEndToEnd ==
  (last.op = "processMessage" /\ last.call.message = M1 /\ calls["a1"] = 1
     /\ last.call.options.improverName = Undefined /\ last.call.active = "shout"
     /\ last.invoked = "uppercase")
    => /\ last.promise.state = "fulfilled"
       /\ last.promise.value.originalMessage = <<"h","e","l","l","o">>
       /\ last.promise.value.improvedMessage = <<"H","E","L","L","O">>
       /\ last.promise.value.improvementType = "custom"
       /\ conversations["a1"] = <<[id |-> "c1", messages |-> <<M1>>]>>

\* C29 witness: the scenario has run to its end with "shout" still active
C29_Witness ==
  /\ last.op = "processMessage"
  /\ last.call.message = M1
  /\ calls["a1"] = 1
  /\ last.call.options.improverName = Undefined
  /\ last.call.active = "shout"
  /\ last.invoked = "uppercase"
  /\ getActive = "shout"
  /\ inflight = <<>>

\* C30: the seed "default" transform trims its input, capitalizes the first
\* character and appends "." when the text does not already end in ".", "!" or
\* "?", so that "hi there" becomes "Hi there."; applied to its own output it
\* returns that output unchanged.
C30_DefaultPunctuates ==
  last.op = "defaultImprover"
    => LET t      == trim(last.input)
           capped == IF t = <<>> THEN t ELSE <<ToUpperChar(t[1])>> \o SubSeq(t, 2, Len(t))
           ended  == t # <<>> /\ t[Len(t)] \in {".", "!", "?"}
       IN  /\ last.output = (IF ended THEN capped ELSE capped \o <<".">>)
           /\ last.input = TxtHiThere => last.output = <<"H","i"," ","t","h","e","r","e",".">>
           /\ last.again => last.output = last.input

\* C30 as amended: the same, for an input that is not empty after trimming; an
\* input that is empty or all white space gives the empty text, with no "."
\* appended.
C30_DefaultPunctuatesNonEmpty ==
  last.op = "defaultImprover"
    => LET t      == trim(last.input)
           capped == IF t = <<>> THEN t ELSE <<ToUpperChar(t[1])>> \o SubSeq(t, 2, Len(t))
           ended  == t # <<>> /\ t[Len(t)] \in {".", "!", "?"}
       IN  /\ last.output = (IF t = <<>> THEN <<>>
                             ELSE IF ended THEN capped ELSE capped \o <<".">>)
           /\ last.input = TxtHiThere => last.output = <<"H","i"," ","t","h","e","r","e",".">>
           /\ last.again => last.output = last.input

\* C30 witness: "hi there" became "Hi there.", and the second application has
\* returned "Hi there." for "Hi there."
C30_Witness ==
  /\ last.op = "defaultImprover"
  /\ last.again
  /\ last.input = <<"H","i"," ","t","h","e","r","e",".">>
  /\ last.output = <<"H","i"," ","t","h","e","r","e",".">>

\* C34: the registry's lookups agree on what is registered: for every name n,
\* exists(n) holds, setActive(n) succeeds and improveWith resolves a transform for
\* n exactly when n is in list().
C34_LookupsAgree ==
  /\ \A n \in Names :
       /\ exists(n) <=> Listed(list, n)
       /\ lookup(n) # Undefined <=> Listed(list, n)
  /\ last.op = "setActive" => (last.ret <=> Listed(last.pre.list, last.name))

----------------------------------------------------------------------------
(* The directory client of each agent: register, unregister,                  *)
(* updateRegistration and heartbeat.  A call that contacts the directory      *)
(* waits in pending for the answer: a status, or "error" when the request     *)
(* fails.  The requests are made with validateStatus: status < 500, so a      *)
(* status of 500 is thrown like a failed request.                             *)

ClientOps == {"RegistryClient.register", "RegistryClient.unregister",
              "RegistryClient.updateRegistration", "RegistryClient.heartbeat"}

\* a client that contacts the directory whatever its flag
contacts_always(op, flag) == TRUE

\* register always contacts the directory; the other calls return at once
\* while the client is not registered
contacts(op, flag) == op = "RegistryClient.register" \/ flag

\* the request throws: it failed, or the status is one validateStatus refuses
raises(response) == response \in {"500", "error"}

\* isRegistered after the answer; only register has a catch block that writes it
flagAfter(op, flag, response) ==
  CASE op = "RegistryClient.register" ->
         (CASE response = "200" -> TRUE [] raises(response) -> FALSE [] OTHER -> flag)
    [] op = "RegistryClient.unregister" ->
         (IF response \in {"200", "404"} THEN FALSE ELSE flag)
    [] OTHER -> flag

\* what a call returns after the answer
returnsAfter(op, response) ==
  IF op = "RegistryClient.unregister" THEN response \in {"200", "404"} ELSE response = "200"

\* register(), unregister(), updateRegistration() or heartbeat() is called: it
\* sends its request, or returns at once, unregister() true and the others false
request(a, op) ==
  /\ issued(a) < MaxLifecycle
  /\ LET flag == lifecycle[a].isRegistered
     IN  IF contacts(op, flag)
         THEN /\ lifecycle' = [lifecycle EXCEPT ![a].pending =
                     Append(@, [op |-> op, pc |-> "request", server |-> 0, flag |-> flag])]
              /\ UNCHANGED last
         ELSE /\ lifecycle' = [lifecycle EXCEPT ![a].log =
                     Append(@, [op |-> op, state |-> "fulfilled"])]
              /\ last' = [op |-> op, agent |-> a, ret |-> (op = "RegistryClient.unregister"),
                          contacted |-> FALSE,
                          flag |-> flag, response |-> "none", pre |-> lifecycle[a]]
  /\ UNCHANGED <<registryVars, messageVars, inflight>>

\* the directory answers, or the request fails
respond(a, i) ==
  /\ i \in 1..Len(lifecycle[a].pending)
  /\ lifecycle[a].pending[i].op \in ClientOps
  /\ \E response \in {"200", "404", "500", "error"} :
       LET op == lifecycle[a].pending[i].op
       IN  /\ lifecycle' = [lifecycle EXCEPT ![a] =
                  returned([lifecycle[a] EXCEPT
                              !.isRegistered = flagAfter(op, @, response)],
                           i, op, "fulfilled")]
           /\ last' = [op |-> op, agent |-> a, ret |-> returnsAfter(op, response),
                       contacted |-> TRUE, flag |-> lifecycle[a].pending[i].flag,
                       response |-> response, pre |-> lifecycle[a]]
  /\ UNCHANGED <<registryVars, messageVars, inflight>>

NextClient ==
  \/ \E op \in ClientOps : request("a1", op)
  \/ \E i \in 1..MaxLifecycle : respond("a1", i)
  \/ start("a1")
  \/ \E i \in 1..MaxLifecycle : startApi("a1", i)
  \/ \E i \in 1..MaxLifecycle : startListen("a1", i)
  \/ \E i \in 1..MaxLifecycle : startDone("a1", i)

SpecClient == Init /\ [][NextClient]_vars

\* C38: the client's flag becomes true only on a register() answered 200 and
\* becomes false only on an unregister() answered 200 or 404 or a register()
\* whose request raised an error; a call made while the flag is false does not contact
\* the directory, with unregister() returning true and heartbeat() and
\* updateRegistration() returning false.
C38_RegisteredFlag ==
  [][\A a \in Agents :
       LET pre == lifecycle[a]
           post == lifecycle'[a]
           byRegister == /\ Len(post.log) = Len(pre.log) + 1
                         /\ last'.op \in {"RegistryClient.register", "start"}
                         /\ last'.agent = a
       IN  /\ (~pre.isRegistered /\ post.isRegistered) =>
                 byRegister /\ last'.response = "200"
           /\ (pre.isRegistered /\ ~post.isRegistered) =>
                 \/ byRegister /\ raises(last'.response)
                 \/ /\ Len(post.log) = Len(pre.log) + 1
                    /\ last'.op = "RegistryClient.unregister"
                    /\ last'.agent = a
                    /\ last'.response \in {"200", "404"}
           /\ ( /\ Len(post.log) = Len(pre.log) + 1
                /\ last'.op \in ClientOps \ {"RegistryClient.register"}
                /\ last'.agent = a
                /\ ~last'.flag ) =>
                 /\ ~last'.contacted
                 /\ last'.ret = (last'.op = "RegistryClient.unregister")
     ]_vars

\* a heartbeat was refused before any registration, and later an
\* unregister() answered 404 cleared the flag a register() had set
C38_Witness ==
  /\ Len(lifecycle["a1"].log) = 3
  /\ lifecycle["a1"].log[1].op = "RegistryClient.heartbeat"
  /\ lifecycle["a1"].log[2].op = "RegistryClient.register"
  /\ last.op = "RegistryClient.unregister"
  /\ last.contacted /\ last.response = "404" /\ last.ret
  /\ last.pre.isRegistered
  /\ ~lifecycle["a1"].isRegistered

----------------------------------------------------------------------------
(* start, stop and restart on an agent that also processes messages; each is  *)
(* called when no other lifecycle call is under way (SpecLifecycle has the    *)
(* overlapping calls)                                                         *)

NextRestart ==
  \/ lifecycle["a1"].pending = <<>> /\ start("a1")
  \/ \E i \in 1..MaxLifecycle : startApi("a1", i)
  \/ \E i \in 1..MaxLifecycle : startListen("a1", i)
  \/ \E i \in 1..MaxLifecycle : startDone("a1", i)
  \/ lifecycle["a1"].pending = <<>> /\ stop("a1")
  \/ \E i \in 1..MaxLifecycle : stopApi("a1", i)
  \/ \E i \in 1..MaxLifecycle : stopDone("a1", i)
  \/ lifecycle["a1"].pending = <<>> /\ restart("a1")
  \/ \E i \in 1..MaxLifecycle : restartStart("a1", i)
  \/ processMessage("a1", M1, [improveMessage |-> "false", improverName |-> Undefined])

SpecRestart == Init /\ [][NextRestart]_vars

\* C35: messageCount never decreases, and every step of start, stop and restart
\* leaves messageCount, the conversation store, the registry contents and the
\* active name as they were.
C35_LifecycleKeepsData ==
  [][ /\ \A a \in Agents : messageCount'[a] >= messageCount[a]
      /\ lifecycle' # lifecycle =>
           /\ messageCount' = messageCount
           /\ conversations' = conversations
           /\ UNCHANGED registryVars
    ]_vars

\* a started agent that has stored a message was restarted, and the message
\* is still counted and stored
C35_Witness ==
  /\ Len(lifecycle["a1"].log) = 2
  /\ lifecycle["a1"].log[1] = [op |-> "start", state |-> "fulfilled"]
  /\ lifecycle["a1"].log[2] = [op |-> "restart", state |-> "fulfilled"]
  /\ last.op = "restart"
  /\ lifecycle["a1"].isRunning
  /\ messageCount["a1"] = 2
  /\ conversations["a1"] # <<>>

----------------------------------------------------------------------------
(* An agent that is started and stopped, one call at a time, while it         *)
(* processes m1 with the seed transform                                       *)

NextUngated ==
  \/ lifecycle["a1"].pending = <<>> /\ start("a1")
  \/ \E i \in 1..MaxLifecycle : startApi("a1", i)
  \/ \E i \in 1..MaxLifecycle : startListen("a1", i)
  \/ \E i \in 1..MaxLifecycle : startDone("a1", i)
  \/ lifecycle["a1"].pending = <<>> /\ stop("a1")
  \/ \E i \in 1..MaxLifecycle : stopApi("a1", i)
  \/ \E i \in 1..MaxLifecycle : stopDone("a1", i)
  \/ processMessage("a1", M1, [improveMessage |-> Undefined, improverName |-> Undefined])
  \/ \E i \in 1..MaxInflight : settle(i)

SpecUngated == Init /\ [][NextUngated]_vars

\* C36: processMessage does not look at the lifecycle state: whether or not
\* the agent is running when m1 is passed, the call increments messageCount and
\* appends m1 to conversation c1, and with the seed transform active it returns
\* "Hello." typed "default".
C36_NotGated ==
  [][ /\ \A a \in Agents :
           (arrivals'[a] # arrivals[a] /\ arrivals'[a][Len(arrivals'[a])].kind = "message")
             => /\ messageCount'[a] = messageCount[a] + 1
                /\ hasConversation(conversations'[a], "c1")
                /\ getConversation(conversations'[a], "c1").messages
                     = (IF hasConversation(conversations[a], "c1")
                        THEN getConversation(conversations[a], "c1").messages
                        ELSE <<>>) \o <<M1>>
      /\ last'.op = "processMessage"
           => /\ last'.promise.state = "fulfilled"
              /\ last'.promise.value.originalMessage = <<"h","e","l","l","o">>
              /\ last'.promise.value.improvedMessage = <<"H","e","l","l","o",".">>
              /\ last'.promise.value.improvementType = "default"
    ]_vars

\* m1 was passed to an agent that had been started and stopped, and came back
\* improved
C36_Witness ==
  /\ last.op = "processMessage"
  /\ ~last.call.running
  /\ last.call.log = <<[op |-> "start", state |-> "fulfilled"], [op |-> "stop", state |-> "fulfilled"]>>
  /\ ~lifecycle["a1"].isRunning
  /\ last.promise.state = "fulfilled"
  /\ messageCount["a1"] = 1
  /\ conversations["a1"] = <<[id |-> "c1", messages |-> <<M1>>]>>

----------------------------------------------------------------------------
(* AgentBridge: messages delivered to and sent by an agent                    *)

ErrorNotRunning == [type |-> "Error", message |-> "Agent bridge is not running"]

\* a bridge call that threw: nothing but the caller sees it
threw(op, a, error) ==
  /\ last' = [op |-> op, agent |-> a, threw |-> TRUE, pre |-> lifecycle[a], error |-> error]
  /\ UNCHANGED <<registryVars, messageVars, lifecycleVars, inflight>>

\* a bridge that delivers whether or not it is running
simulateMessage_unguarded(a, message) ==
  IF IsNull(message)
  THEN threw("simulateMessage", a, TypeErrorRead)
  ELSE /\ Len(lifecycle[a].messageHandlers) = 1
       /\ dispatch(a, message, [improveMessage |-> Undefined, improverName |-> Undefined],
                   "onMessage")

\* simulateMessage(message): throws when the bridge is not running, and when
\* reading message.id for the log line fails; otherwise calls each message
\* handler, here the one of setupMessagePipeline, which calls processMessage
\* with no options and waits for it
simulateMessage(a, message) ==
  IF ~lifecycle[a].bridgeRunning
  THEN threw("simulateMessage", a, ErrorNotRunning)
  ELSE IF IsNull(message)
  THEN threw("simulateMessage", a, TypeErrorRead)
  ELSE /\ Len(lifecycle[a].messageHandlers) = 1
       /\ dispatch(a, message, [improveMessage |-> Undefined, improverName |-> Undefined],
                   "onMessage")

\* sendMessage(message): rejects when the bridge is not running, and when
\* reading message.id fails; otherwise it only logs
sendMessage(a, message) ==
  IF ~lifecycle[a].bridgeRunning
  THEN threw("sendMessage", a, ErrorNotRunning)
  ELSE IF IsNull(message)
  THEN threw("sendMessage", a, TypeErrorRead)
  ELSE /\ last' = [op |-> "sendMessage", agent |-> a, threw |-> FALSE, pre |-> lifecycle[a]]
       /\ UNCHANGED <<registryVars, messageVars, lifecycleVars, inflight>>

\* a bridge that passes the failure of a message handler to its error handlers
notify_onError(errors, promise) ==
  IF promise.state = "rejected" THEN Append(errors, promise.reason) ELSE errors

\* what the error handlers have been passed once a message handler has
\* finished: the bridge never calls them, and nothing waits for the handler
notify(errors, promise) == errors

\* the message handler resumes: processMessage has settled, at once or when the
\* transform it awaited has
handlerSettle(i) ==
  /\ i \in 1..Len(inflight)
  /\ inflight[i].api = "onMessage"
  /\ LET c == inflight[i]
     IN  \E promise \in (IF c.settled.state = "pending"
                         THEN {processMessageSettle(
                                 improveWithSettle(c.name, c.message, c.context, outcome)) :
                               outcome \in Outcomes(c.fn, c.message)}
                         ELSE {c.settled}) :
           /\ last' = Returned("onMessage", c.agent, c.name, c.message, promise, c.fn,
                               Undefined, c.registered, c.call)
           /\ lifecycle' = [lifecycle EXCEPT ![c.agent].errors = notify(@, promise)]
  /\ inflight' = RemoveAt(inflight, i)
  /\ UNCHANGED <<registryVars, messageVars>>

(* An agent whose bridge delivers messages while the agent is started and     *)
(* stopped, one lifecycle call at a time                                      *)

NextBridge ==
  \/ lifecycle["a1"].pending = <<>> /\ start("a1")
  \/ \E i \in 1..MaxLifecycle : startApi("a1", i)
  \/ \E i \in 1..MaxLifecycle : startListen("a1", i)
  \/ \E i \in 1..MaxLifecycle : startDone("a1", i)
  \/ lifecycle["a1"].pending = <<>> /\ stop("a1")
  \/ \E i \in 1..MaxLifecycle : stopApi("a1", i)
  \/ \E i \in 1..MaxLifecycle : stopDone("a1", i)
  \/ \E message \in {M1, M3} : simulateMessage("a1", message)
  \/ sendMessage("a1", M1)
  \/ \E i \in 1..MaxInflight : handlerSettle(i)

SpecBridge == Init /\ [][NextBridge]_vars

\* the step is a call of op on the bridge of agent a that threw
bridgeThrew(op, a) ==
  /\ last'.op = op /\ last'.agent = a /\ last'.threw
  /\ \/ last.op # op
     \/ ~last.threw
     \/ last.pre # last'.pre
     \/ last.error # last'.error

\* the step is a simulateMessage on agent a that returned
bridgeDelivered(a) ==
  /\ calls'[a] = calls[a] + 1
  /\ last'.op = "simulateMessage" /\ last'.agent = a /\ ~last'.threw
  /\ last'.call.seq = calls'[a]

\* C33: the bridge of each agent holds one message handler and one error
\* handler; a simulateMessage on a running bridge makes exactly one
\* processMessage call for its message, and simulateMessage and sendMessage on a
\* bridge that is not running throw 'Agent bridge is not running' with no handler
\* invoked.
C33_OneHandlerEach ==
  [][\A a \in Agents :
       /\ Len(lifecycle'[a].messageHandlers) = 1
       /\ Len(lifecycle'[a].errorHandlers) = 1
       /\ (last'.op \in {"simulateMessage", "sendMessage"} /\ last'.agent = a)
            => (last'.threw <=> ~last'.pre.bridgeRunning)
       /\ bridgeDelivered(a)
            => /\ lifecycle[a].bridgeRunning
               /\ messageCount'[a] = messageCount[a] + 1
               /\ arrivals'[a] = Append(arrivals[a],
                                        [kind |-> "message", message |-> last'.call.message])
               /\ Len(inflight') = Len(inflight) + 1
       /\ calls'[a] # calls[a] => lifecycle[a].bridgeRunning
       /\ (bridgeThrew("simulateMessage", a) \/ bridgeThrew("sendMessage", a))
            => /\ last'.error = ErrorNotRunning
               /\ UNCHANGED <<messageVars, inflight>>
               /\ lifecycle'[a].errors = lifecycle[a].errors
    ]_vars

\* a started bridge delivered one message, which was processed once, and after
\* the agent was stopped simulateMessage threw
C33_Witness ==
  /\ last.op = "simulateMessage"
  /\ last.threw
  /\ ~lifecycle["a1"].bridgeRunning
  /\ lifecycle["a1"].log = <<[op |-> "start", state |-> "fulfilled"],
                             [op |-> "stop", state |-> "fulfilled"]>>
  /\ calls["a1"] = 1
  /\ messageCount["a1"] = 1
  /\ arrivals["a1"] = <<[kind |-> "message", message |-> M1]>>
  /\ inflight = <<>>

\* C37: a failed start is not rolled back: when start() is rejected because the
\* API server could not listen, the bridge it started is still running, so
\* simulateMessage still delivers, while the agent's isRunning is false.
C37_FailedStartNotRolledBack ==
  [][\A a \in Agents :
       ( /\ Len(lifecycle'[a].log) = Len(lifecycle[a].log) + 1
         /\ last'.op = "start" /\ last'.agent = a
         /\ last'.promise.state = "rejected" )
         => /\ lifecycle'[a].bridgeRunning
            /\ ~lifecycle'[a].isRunning
    ]_vars

\* C39: no error handler of the bridge is ever passed anything, whatever
\* becomes of the processMessage call made for a delivered message, and when
\* simulateMessage returns the message handler it called has not finished.
C39_ErrorHandlerNeverCalled ==
  [][\A a \in Agents :
       /\ lifecycle'[a].errors = <<>>
       /\ bridgeDelivered(a)
            => /\ inflight' = Append(inflight, inflight'[Len(inflight')])
               /\ inflight'[Len(inflight')].api = "onMessage"
               /\ inflight'[Len(inflight')].agent = a
               /\ inflight'[Len(inflight')].call = last'.call
    ]_vars

\* the processMessage call made for a delivered message without content was
\* rejected, and no error handler has been passed the error
C39_Witness ==
  /\ last.op = "onMessage"
  /\ last.call.message = M3
  /\ last.promise = Rejected(TypeErrorRead)
  /\ lifecycle["a1"].errors = <<>>
  /\ inflight = <<>>

----------------------------------------------------------------------------
(* NANDA: the accessors                                                       *)

\* getCapabilities(): seven constants and `ssl: this.config.ssl || false`
getCapabilities(a) ==
  [messageImprovement |-> TRUE, conversationManagement |-> TRUE, webSocketSupport |-> TRUE,
   apiEndpoints |-> TRUE, registryIntegration |-> TRUE, customImprovers |-> TRUE,
   logging |-> TRUE, ssl |-> (lifecycle[a].config.ssl = TRUE)]

\* getConfig(): { ...this.config }, a copy with the same entries
getConfig(a) == [k \in DOMAIN lifecycle[a].config |-> lifecycle[a].config[k]]

\* getAllConversations(): Array.from(this.conversations.values())
getAllConversations(a) == conversations[a]

\* updateConfig(updates): this.config = { ...this.config, ...updates }
updateConfig(a, updates) ==
  /\ lifecycle' = [lifecycle EXCEPT ![a].config =
         [k \in DOMAIN @ \cup DOMAIN updates |->
            IF k \in DOMAIN updates THEN updates[k] ELSE @[k]]]
  /\ last' = [op |-> "updateConfig", agent |-> a, arg |-> updates]
  /\ UNCHANGED <<registryVars, messageVars, inflight>>

\* an accessor is called with arg and returns ret
reads(a, op, arg, ret) ==
  /\ last' = [op |-> op, agent |-> a, arg |-> arg, ret |-> ret]
  /\ UNCHANGED <<registryVars, messageVars, lifecycleVars, inflight>>

\* a getStatus() that counts the call as a message
statusRead_counted(a) ==
  /\ last' = [op |-> "getStatus", agent |-> a, arg |-> <<>>, ret |-> getStatus(a)]
  /\ messageCount' = [messageCount EXCEPT ![a] = @ + 1]
  /\ UNCHANGED <<registryVars, conversations, calls, arrivals, lifecycleVars, inflight>>

statusRead(a) == reads(a, "getStatus", <<>>, getStatus(a))

capabilitiesRead(a) == reads(a, "getCapabilities", <<>>, getCapabilities(a))

configRead(a) == reads(a, "getConfig", <<>>, getConfig(a))

conversationRead(a, conversationId) ==
  reads(a, "getConversation", <<conversationId>>, getConversation(conversations[a], conversationId))

allConversationsRead(a) == reads(a, "getAllConversations", <<>>, getAllConversations(a))

(* An agent that is started, reconfigured and passed messages, and read       *)

NextReads ==
  \/ statusRead("a1")
  \/ capabilitiesRead("a1")
  \/ configRead("a1")
  \/ \E conversationId \in ConversationIds : conversationRead("a1", conversationId)
  \/ allConversationsRead("a1")
  \/ \E updates \in {[ssl |-> TRUE], [port |-> 7000, logLevel |-> "debug"]} :
       updateConfig("a1", updates)
  \/ lifecycle["a1"].pending = <<>> /\ start("a1")
  \/ \E i \in 1..MaxLifecycle : startApi("a1", i)
  \/ \E i \in 1..MaxLifecycle : startListen("a1", i)
  \/ \E i \in 1..MaxLifecycle : startDone("a1", i)
  \/ \E message \in {M1, M3} :
       processMessage("a1", message, [improveMessage |-> "false", improverName |-> Undefined])

SpecReads == Init /\ [][NextReads]_vars

\* the step is a call of an accessor of agent a
readStep(a) ==
  /\ last'.op \in {"getStatus", "getCapabilities", "getConfig", "getConversation",
                  "getAllConversations"}
  /\ last'.agent = a
  /\ last' # last

\* C31: a call of getStatus, getCapabilities, getConfig, getConversation or
\* getAllConversations changes neither messageCount, isRunning, the conversation
\* store, the configuration nor the registry.
C31_PureReads ==
  [][\A a \in Agents :
       readStep(a)
         => /\ messageCount' = messageCount
            /\ conversations' = conversations
            /\ lifecycle'[a].isRunning = lifecycle[a].isRunning
            /\ lifecycle'[a].config = lifecycle[a].config
            /\ UNCHANGED registryVars
    ]_vars

\* getAllConversations was called on a running, reconfigured agent that has
\* stored m1, and returned the store
C31_Witness ==
  /\ last.op = "getAllConversations"
  /\ last.ret = <<[id |-> "c1", messages |-> <<M1>>]>>
  /\ conversations["a1"] = last.ret
  /\ messageCount["a1"] = 1
  /\ lifecycle["a1"].isRunning
  /\ lifecycle["a1"].config.ssl
  /\ getStatus("a1").status = "running"

----------------------------------------------------------------------------
(* One agent processing m1 with the seed transform or with "shout", which is  *)
(* registered as a transform that never completes or as one that throws; a    *)
(* transform that completes is resumed by the event loop, hence the fairness  *)
(* on settle                                                                  *)

NextHung ==
  \/ \E fn \in {"neverSettles", "throwError"} : register("shout", fn)
  \/ \E improverName \in {Undefined, "shout"} :
       processMessage("a1", M1, [improveMessage |-> Undefined, improverName |-> improverName])
  \/ \E i \in 1..MaxInflight : settle(i)

SpecHung ==
  Init /\ [][NextHung]_vars /\ WF_vars(\E i \in 1..MaxInflight : settle(i))

\* call n of agent a is waiting for its transform
waiting(a, n) ==
  \E i \in 1..Len(inflight) :
    /\ inflight[i].api = "processMessage"
    /\ inflight[i].agent = a
    /\ inflight[i].call.seq = n

\* call n of agent a is waiting for a transform that never completes
hung(a, n) ==
  \E i \in 1..Len(inflight) :
    /\ inflight[i].api = "processMessage"
    /\ inflight[i].agent = a
    /\ inflight[i].call.seq = n
    /\ inflight[i].fn = "neverSettles"

\* C32: a processMessage call that waits for a transform that completes
\* eventually returns, whatever other calls are hung; a call stops waiting only
\* by returning; a call waiting for a transform that never completes waits for
\* ever; and every call made meanwhile is counted and its message stored.
C32_HungCallStallsOnlyItself ==
  /\ \A n \in 1..MaxCalls : (waiting("a1", n) /\ ~hung("a1", n)) ~> ~waiting("a1", n)
  /\ [][\A n \in 1..MaxCalls :
          /\ hung("a1", n) => hung("a1", n)'
          /\ (waiting("a1", n) /\ ~waiting("a1", n)')
               => (last'.op = "processMessage" /\ last'.call.seq = n)
          /\ calls'["a1"] = n /\ calls["a1"] = n - 1
               => /\ messageCount'["a1"] = messageCount["a1"] + 1
                  /\ conversations'["a1"] = storeMessage(conversations["a1"], M1)
     ]_vars

\* the first call hangs in "shout"; the second, made after it, has gone
\* through the seed transform and returned
C32_Witness ==
  /\ hung("a1", 1)
  /\ last.op = "processMessage"
  /\ last.call.seq = 2
  /\ last.invoked = "defaultImprover"
  /\ last.promise.state = "fulfilled"
  /\ messageCount["a1"] = 2
  /\ conversations["a1"] = <<[id |-> "c1", messages |-> <<M1, M1>>]>>

====
